--------------------------- MODULE DispatchLossProofs ---------------------------
(***************************************************************************)
(* Proofs that Dispatch loses nothing without saying so: what the output   *)
(* files miss, what the original outputs miss and what cron mode holds     *)
(* back, for every number of files, messages and units.                    *)
(***************************************************************************)
EXTENDS DispatchProofs

(* What is in a sequence of units is in every longer one.                  *)
LEMMA HoldsConcat ==
  ASSUME NEW S, NEW a \in Seq(S), NEW b \in Seq(S), NEW n
  PROVE  Holds(a, n) \/ Holds(b, n) => Holds(a \o b, n)
<1> DEFINE c == a \o b
<1>1. Len(a) \in Nat /\ Len(b) \in Nat /\ DOMAIN a = 1..Len(a) /\ DOMAIN b = 1..Len(b)
  BY LenProperties
<1>2. c \in Seq(S) /\ Len(c) = Len(a) + Len(b)
      /\ \A i \in 1..(Len(a) + Len(b)) : c[i] = IF i <= Len(a) THEN a[i] ELSE b[i - Len(a)]
  BY ConcatProperties
<1>3. DOMAIN c = 1..(Len(a) + Len(b))
  BY <1>2, LenProperties
<1> HIDE DEF c
<1>4. ASSUME NEW i \in DOMAIN a, a[i].seq = n
      PROVE  Holds(c, n)
  <2>1. i \in DOMAIN c /\ c[i] = a[i]
    BY <1>1, <1>2, <1>3, <1>4
  <2> QED BY <1>4, <2>1 DEF Holds
<1>5. ASSUME NEW i \in DOMAIN b, b[i].seq = n
      PROVE  Holds(c, n)
  <2>1. Len(a) + i \in DOMAIN c /\ c[Len(a) + i] = b[i]
    BY <1>1, <1>2, <1>3, <1>5
  <2> QED BY <1>5, <2>1 DEF Holds
<1>6. Holds(a, n) \/ Holds(b, n) => Holds(c, n)
  BY <1>4, <1>5 DEF Holds
<1> QED BY <1>6 DEF c

(* Consecutive numbers are all there. *)
LEMMA HoldsRun ==
  ASSUME NEW S, NEW s \in Seq(S), NEW base \in Nat, \A i \in 1..Len(s) : s[i].seq = base + i,
         NEW n \in (base + 1)..(base + Len(s))
  PROVE  Holds(s, n)
<1>1. Len(s) \in Nat /\ DOMAIN s = 1..Len(s)
  BY LenProperties
<1>2. n - base \in DOMAIN s /\ s[n - base].seq = n
  BY <1>1
<1> QED BY <1>2 DEF Holds
------------------------------------------------------------------------------
(* The output files *)

(* Units with numbers up to hi, those of the command on certain streams.   *)
Fits(s, hi, kinds, streams) ==
  \A i \in 1..Len(s) : s[i].seq \in 0..hi /\ (s[i].seq > 0 => kinds[s[i].seq] \in streams)

LEMMA FitsExtend ==
  ASSUME NEW s, NEW lo \in Nat, NEW hi \in Nat, lo <= hi, NEW kinds, NEW kinds2, NEW streams,
         \A n \in 1..lo : kinds2[n] = kinds[n], Fits(s, lo, kinds, streams)
  PROVE  Fits(s, hi, kinds2, streams)
<1>1. ASSUME NEW i \in 1..Len(s)
      PROVE  s[i].seq \in 0..hi /\ (s[i].seq > 0 => kinds2[s[i].seq] \in streams)
  <2>1. s[i].seq \in 0..lo /\ (s[i].seq > 0 => kinds[s[i].seq] \in streams)
    BY DEF Fits
  <2> QED BY <2>1
<1> QED BY <1>1 DEF Fits

LEMMA FitsConcat ==
  ASSUME NEW a \in Seq(Unit), NEW b \in Seq(Unit), NEW hi, NEW kinds, NEW streams,
         Fits(a, hi, kinds, streams), Fits(b, hi, kinds, streams)
  PROVE  Fits(a \o b, hi, kinds, streams)
<1> DEFINE c == a \o b
<1>1. Len(a) \in Nat /\ Len(b) \in Nat
  BY LenProperties
<1>2. Len(c) = Len(a) + Len(b)
      /\ \A i \in 1..(Len(a) + Len(b)) : c[i] = IF i <= Len(a) THEN a[i] ELSE b[i - Len(a)]
  BY ConcatProperties
<1> HIDE DEF c
<1>3. ASSUME NEW i \in 1..(Len(a) + Len(b))
      PROVE  c[i].seq \in 0..hi /\ (c[i].seq > 0 => kinds[c[i].seq] \in streams)
  <2>1. CASE i <= Len(a)
    <3>1. c[i] = a[i] /\ i \in 1..Len(a)
      BY <1>1, <1>2, <2>1
    <3> QED BY <3>1 DEF Fits
  <2>2. CASE ~(i <= Len(a))
    <3>1. c[i] = b[i - Len(a)] /\ i - Len(a) \in 1..Len(b)
      BY <1>1, <1>2, <2>2
    <3> QED BY <3>1 DEF Fits
  <2> QED BY <2>1, <2>2
<1>4. Fits(c, hi, kinds, streams)
  BY <1>2, <1>3 DEF Fits
<1> QED BY <1>4 DEF c

(* A file holds only what it takes, and misses nothing unless one of its   *)
(* calls has failed or an exception has lost a message.                    *)
Wanted(f) == {type \in OutputType : Takes(f, type)}
Sound(f) == Fits(content[f], Len(received), received, Wanted(f))
Whole(f) == \A n \in 1..Len(received) : Takes(f, received[n]) => Holds(content[f], n)

FilesInv ==
  /\ \A f \in Files : Sound(f)
  /\ phase = "open" \/ Files \ hurt \subseteq opened
  /\ "EXCEPTION" \notin alarms => \A f \in Files \ hurt : Whole(f)

LEMMA FilesAreIndependent == TypeOK /\ FilesInv => FilesIndependent
<1> SUFFICES ASSUME TypeOK, FilesInv, "EXCEPTION" \notin alarms,
                    NEW f \in Files \ hurt, NEW n \in 1..Len(received)
             PROVE  Takes(f, received[n]) <=> Holds(content[f], n)
  BY DEF FilesIndependent
<1>1. content[f] \in Seq(Unit)
  BY DEF TypeOK, FilesTypeOK
<1>2. DOMAIN content[f] = 1..Len(content[f]) /\ Len(received) \in Nat
  BY <1>1, LenProperties DEF TypeOK
<1>3. Holds(content[f], n) => Takes(f, received[n])
  <2> SUFFICES ASSUME NEW i \in DOMAIN content[f], content[f][i].seq = n
               PROVE  Takes(f, received[n])
    BY DEF Holds
  <2>1. n > 0 /\ i \in 1..Len(content[f]) /\ Fits(content[f], Len(received), received, Wanted(f))
    BY <1>2 DEF FilesInv, Sound
  <2>2. received[n] \in Wanted(f)
    BY <2>1 DEF Fits
  <2> QED BY <2>2 DEF Wanted
<1> QED BY <1>3 DEF FilesInv, Whole

(* What FilesOutput() does to one file. *)
LEMMA FileWrites ==
  ASSUME FilesTypeOK, NEW type, NEW units \in Seq(Unit), NEW ok, FilesOutput(type, units, ok)
  PROVE  /\ opened' = opened /\ hurt \subseteq hurt' /\ (hurt' # hurt => ~ok)
         /\ \A f \in Files :
              \/ content'[f] = content[f] /\ (f \in opened => ~Takes(f, type))
              \/ /\ Takes(f, type)
                 /\ \E ret \in -1..Len(units) :
                      /\ content'[f] = content[f] \o SubSeq(units, 1, ret)
                      /\ f \notin hurt' => ret = Len(units)
<1>1. PICK ret \in [{f \in opened : Takes(f, type)} -> -1..Len(units)] :
        LET short == {f \in DOMAIN ret : ret[f] # Len(units)}
        IN  /\ content' = [f \in Files |->
                             IF f \in DOMAIN ret
                             THEN content[f] \o SubSeq(units, 1, ret[f])
                             ELSE content[f]]
            /\ failed' = (failed \ DOMAIN ret) \cup short
            /\ hurt' = hurt \cup short
  BY DEF FilesOutput
<1>2. DOMAIN ret = {f \in opened : Takes(f, type)} /\ (ok <=> failed' = {}) /\ opened' = opened
  BY <1>1 DEF FilesOutput
<1>3. hurt \subseteq hurt' /\ (hurt' # hurt => failed' # {})
  BY <1>1
<1>4. ASSUME NEW f \in Files
      PROVE  \/ content'[f] = content[f] /\ (f \in opened => ~Takes(f, type))
             \/ /\ Takes(f, type)
                /\ \E r \in -1..Len(units) :
                     /\ content'[f] = content[f] \o SubSeq(units, 1, r)
                     /\ f \notin hurt' => r = Len(units)
  <2>1. CASE f \in DOMAIN ret
    <3>1. content'[f] = content[f] \o SubSeq(units, 1, ret[f])
      BY <1>1, <2>1
    <3>2. f \notin hurt' => ret[f] = Len(units)
      BY <1>1, <2>1
    <3>3. ret[f] \in -1..Len(units) /\ Takes(f, type)
      BY <1>1, <1>2, <2>1
    <3> QED BY <3>1, <3>2, <3>3
  <2>2. CASE f \notin DOMAIN ret
    <3>1. content'[f] = content[f]
      BY <1>1, <2>2
    <3> QED BY <1>2, <2>2, <3>1
  <2> QED BY <2>1, <2>2
<1> QED BY <1>2, <1>3, <1>4

(* ... and what it does to one file when it throws. *)
LEMMA FileThrows ==
  ASSUME FilesTypeOK, NEW type, NEW units \in Seq(Unit), FilesOutputThrows(type, units)
  PROVE  /\ opened' = opened /\ hurt \subseteq hurt'
         /\ \A f \in Files :
              \/ content'[f] = content[f]
              \/ /\ Takes(f, type)
                 /\ \E ret \in -1..Len(units) : content'[f] = content[f] \o SubSeq(units, 1, ret)
<1> DEFINE Wrote(f, before, ret) ==
             LET short == {g \in DOMAIN ret : ret[g] # Len(units)}
             IN  /\ f \in short
                 /\ content' = [g \in Files |->
                                  IF g \in DOMAIN ret
                                  THEN content[g] \o SubSeq(units, 1, ret[g])
                                  ELSE content[g]]
                 /\ failed' = (failed \ before) \cup (short \ {f})
                 /\ hurt' = hurt \cup short
<1>1. PICK g \in {h \in opened \ failed : Takes(h, type)} :
        \E before \in SUBSET ({h \in opened : Takes(h, type)} \ {g}) :
        \E ret \in [before \cup {g} -> -1..Len(units)] : Wrote(g, before, ret)
  BY DEF FilesOutputThrows
<1>2. PICK before \in SUBSET ({h \in opened : Takes(h, type)} \ {g}) :
        \E ret \in [before \cup {g} -> -1..Len(units)] : Wrote(g, before, ret)
  BY <1>1
<1>3. PICK ret \in [before \cup {g} -> -1..Len(units)] : Wrote(g, before, ret)
  BY <1>2
<1>4. DOMAIN ret \subseteq {h \in opened : Takes(h, type)}
  OBVIOUS
<1>5. ASSUME NEW f \in Files
      PROVE  \/ content'[f] = content[f]
             \/ /\ Takes(f, type)
                /\ \E r \in -1..Len(units) : content'[f] = content[f] \o SubSeq(units, 1, r)
  <2>1. CASE f \in DOMAIN ret
    <3>1. content'[f] = content[f] \o SubSeq(units, 1, ret[f])
      BY <1>3, <2>1
    <3>2. ret[f] \in -1..Len(units) /\ Takes(f, type)
      BY <1>4, <2>1
    <3> QED BY <3>1, <3>2
  <2>2. CASE f \notin DOMAIN ret
    BY <1>3, <2>2
  <2> QED BY <2>1, <2>2
<1>6. hurt \subseteq hurt'
  BY <1>3
<1> QED BY <1>5, <1>6 DEF FilesOutputThrows

(* A file that a message has been added to. *)
LEMMA SoundWrite ==
  ASSUME TypeOK, NEW f \in Files, Sound(f), NEW type \in OutputType, NEW len \in Nat,
         Receive(type, len), Takes(f, type), NEW ret \in -1..len,
         content'[f] = content[f] \o SubSeq(Message(type, len), 1, ret)
  PROVE  Sound(f)'
<1> DEFINE units == Message(type, len)
           part == SubSeq(units, 1, ret)
<1>0. /\ units \in Seq(Unit) /\ Len(units) = len /\ Numbered(units, Len(received))
      /\ Len(received') = Len(received) + len /\ Len(received) \in Nat
      /\ \A i \in 1..Len(received) : received'[i] = received[i]
      /\ \A i \in 1..len : received'[Len(received) + i] = type
  BY ReceiveProperties, LenProperties DEF TypeOK
<1>1. content[f] \in Seq(Unit) /\ type \in Wanted(f)
  BY DEF TypeOK, FilesTypeOK, Wanted
<1>2. content'[f] = content[f] \o part
  OBVIOUS
<1> HIDE DEF units
<1>3. /\ part \in Seq(Unit) /\ Len(part) = (IF ret < 0 THEN 0 ELSE ret)
      /\ \A i \in 1..Len(part) : part[i].seq = Len(received) + i
  BY <1>0, NumberedTaken DEF Numbered
<1> HIDE DEF part
<1>4. Fits(content[f], Len(received) + len, received', Wanted(f))
  <2>1. Len(received) + len \in Nat /\ Len(received) <= Len(received) + len
    BY <1>0
  <2> QED BY <1>0, <2>1, FitsExtend DEF Sound
<1>5. Fits(part, Len(received) + len, received', Wanted(f))
  <2>1. ASSUME NEW i \in 1..Len(part)
        PROVE  part[i].seq \in 0..(Len(received) + len) /\ received'[part[i].seq] \in Wanted(f)
    <3>1. i \in 1..len
      BY <1>3
    <3>2. part[i].seq = Len(received) + i /\ received'[Len(received) + i] = type
      BY <1>0, <1>3, <3>1
    <3> QED BY <1>0, <1>1, <3>1, <3>2
  <2> QED BY <2>1 DEF Fits
<1>6. Fits(content'[f], Len(received'), received', Wanted(f))
  BY <1>0, <1>1, <1>2, <1>3, <1>4, <1>5, FitsConcat
<1> QED BY <1>6 DEF Sound, Wanted, Takes

(* Nothing is missing from a file that has taken a whole message. *)
LEMMA WholeWrite ==
  ASSUME TypeOK, NEW f \in Files, Whole(f), NEW type \in OutputType, NEW len \in Nat,
         Receive(type, len),
         \/ content'[f] = content[f] /\ ~Takes(f, type)
         \/ content'[f] = content[f] \o SubSeq(Message(type, len), 1, len)
  PROVE  Whole(f)'
<1> DEFINE units == Message(type, len)
           part == SubSeq(units, 1, len)
<1>0. /\ units \in Seq(Unit) /\ Len(units) = len /\ Numbered(units, Len(received))
      /\ Len(received') = Len(received) + len /\ Len(received) \in Nat
      /\ \A i \in 1..Len(received) : received'[i] = received[i]
      /\ \A i \in 1..len : received'[Len(received) + i] = type
  BY ReceiveProperties, LenProperties DEF TypeOK
<1>1. content[f] \in Seq(Unit)
  BY DEF TypeOK, FilesTypeOK
<1>2. (content'[f] = content[f] /\ ~Takes(f, type)) \/ content'[f] = content[f] \o part
  OBVIOUS
<1> HIDE DEF units
<1>3. /\ part \in Seq(Unit) /\ Len(part) = len
      /\ \A i \in 1..Len(part) : part[i].seq = Len(received) + i
  BY <1>0, NumberedTaken DEF Numbered
<1> HIDE DEF part
<1>4. ASSUME NEW n \in 1..(Len(received) + len), Takes(f, received'[n])
      PROVE  Holds(content'[f], n)
  <2>1. CASE n <= Len(received)
    <3>1. Holds(content[f], n)
      BY <1>0, <1>4, <2>1 DEF Whole
    <3>2. CASE content'[f] = content[f]
      BY <3>1, <3>2
    <3>3. CASE content'[f] = content[f] \o part
      BY <1>1, <1>3, <3>1, <3>3, HoldsConcat
    <3> QED BY <1>2, <3>2, <3>3
  <2>2. CASE ~(n <= Len(received))
    <3>1. n - Len(received) \in 1..len /\ n \in (Len(received) + 1)..(Len(received) + len)
      BY <1>0, <2>2
    <3>2. received'[Len(received) + (n - Len(received))] = type
      BY <1>0, <3>1
    <3>3. received'[n] = type
      BY <1>0, <3>1, <3>2
    <3>4. content'[f] = content[f] \o part
      BY <1>2, <1>4, <3>3
    <3>5. Holds(part, n)
      BY <1>0, <1>3, <3>1, HoldsRun
    <3> QED BY <1>1, <1>3, <3>4, <3>5, HoldsConcat
  <2> QED BY <2>1, <2>2
<1> QED BY <1>0, <1>4 DEF Whole, Takes

LEMMA FilesInvInit == Init => FilesInv
<1> SUFFICES ASSUME Init PROVE FilesInv
  OBVIOUS
<1>1. /\ Len(received) = 0 /\ phase = "open"
      /\ \A f \in Files : content[f] = Existing
  BY EmptySeq DEF Init, FilesInit
<1>2. Len(Existing) = 1 /\ Existing[1].seq = 0
  BY DEF Existing
<1>3. ASSUME NEW f \in Files
      PROVE  Sound(f) /\ Whole(f)
  BY <1>1, <1>2, <1>3 DEF Sound, Whole, Fits
<1> QED BY <1>1, <1>3 DEF FilesInv

(* However much of a message the files take, they stay sound. *)
LEMMA SoundAfter ==
  ASSUME TypeOK, FilesInv, NEW type \in OutputType, NEW len \in Nat, Receive(type, len),
         NEW f \in Files,
         \/ content'[f] = content[f]
         \/ /\ Takes(f, type)
            /\ \E ret \in -1..len : content'[f] = content[f] \o SubSeq(Message(type, len), 1, ret)
  PROVE  Sound(f)'
<1>1. CASE content'[f] = content[f]
  <2>1. /\ Len(received') = Len(received) + len /\ Len(received) \in Nat
        /\ \A i \in 1..Len(received) : received'[i] = received[i]
    BY ReceiveProperties, LenProperties DEF TypeOK
  <2>2. Fits(content[f], Len(received), received, Wanted(f))
    BY DEF FilesInv, Sound
  <2>3. Len(received') \in Nat /\ Len(received) <= Len(received')
    BY <2>1
  <2>4. Fits(content[f], Len(received'), received', Wanted(f))
    BY <2>1, <2>2, <2>3, FitsExtend
  <2> QED BY <1>1, <2>4 DEF Sound, Wanted, Takes
<1>2. CASE Takes(f, type) /\ \E ret \in -1..len :
             content'[f] = content[f] \o SubSeq(Message(type, len), 1, ret)
  BY <1>2, SoundWrite DEF FilesInv
<1> QED BY <1>1, <1>2

(* A message that is received and passed to the output files. *)
LEMMA OutputFiles ==
  ASSUME TypeOK, TypeOK', FilesInv, NEW type \in OutputType, NEW len \in 0..MaxLength,
         Output(type, len)
  PROVE  FilesInv'
<1>0. len \in Nat /\ Receive(type, len) /\ phase = "loop" /\ FilesTypeOK
  BY DispatchAssumption DEF Output, TypeOK
<1>1. PICK ok \in BOOLEAN : FilesOutput(type, Message(type, len), ok)
  BY DEF Output, DispatchOutput
<1>2. Message(type, len) \in Seq(Unit) /\ Len(Message(type, len)) = len
  BY <1>0, ReceiveProperties
<1>3. alarms \subseteq alarms'
  BY DEF Output
<1>4. /\ opened' = opened /\ hurt \subseteq hurt'
      /\ \A f \in Files :
           \/ content'[f] = content[f] /\ (f \in opened => ~Takes(f, type))
           \/ /\ Takes(f, type)
              /\ \E ret \in -1..len :
                   /\ content'[f] = content[f] \o SubSeq(Message(type, len), 1, ret)
                   /\ f \notin hurt' => ret = len
  BY <1>0, <1>1, <1>2, FileWrites
<1>5. ASSUME NEW f \in Files
      PROVE  Sound(f)'
  <2>1. \/ content'[f] = content[f]
        \/ /\ Takes(f, type)
           /\ \E ret \in -1..len : content'[f] = content[f] \o SubSeq(Message(type, len), 1, ret)
    BY <1>4
  <2> QED BY <1>0, <2>1, SoundAfter
<1>6. ASSUME "EXCEPTION" \notin alarms', NEW f \in Files, f \notin hurt'
      PROVE  Whole(f)'
  <2>1. Whole(f) /\ f \in opened
    BY <1>0, <1>3, <1>4, <1>6 DEF FilesInv
  <2>2. \/ content'[f] = content[f] /\ ~Takes(f, type)
        \/ content'[f] = content[f] \o SubSeq(Message(type, len), 1, len)
    BY <1>4, <1>6, <2>1
  <2> QED BY <1>0, <2>1, <2>2, WholeWrite
<1>7. Files \ hurt' \subseteq opened'
  BY <1>0, <1>4 DEF FilesInv
<1> QED BY <1>5, <1>6, <1>7 DEF FilesInv

(* A message that an exception loses, or that some of the files have had.  *)
LEMMA ThrowsFiles ==
  ASSUME TypeOK, FilesInv, NEW type \in OutputType, NEW len \in 0..MaxLength,
         OutputThrows(type, len)
  PROVE  FilesInv'
<1> DEFINE units == Message(type, len)
<1>0. len \in Nat /\ Receive(type, len) /\ phase = "loop" /\ FilesTypeOK /\ "EXCEPTION" \in alarms'
  BY DispatchAssumption DEF OutputThrows, Throw, TypeOK
<1>1. units \in Seq(Unit) /\ Len(units) = len
  BY <1>0, ReceiveProperties
<1>2. \/ UNCHANGED fileVars
      \/ FilesOutputThrows(type, units)
      \/ \E ok \in BOOLEAN : FilesOutput(type, units, ok)
  BY DEF OutputThrows, DispatchOutput
<1> HIDE DEF units
<1>3. /\ opened' = opened /\ hurt \subseteq hurt'
      /\ \A f \in Files :
           \/ content'[f] = content[f]
           \/ /\ Takes(f, type)
              /\ \E ret \in -1..len : content'[f] = content[f] \o SubSeq(units, 1, ret)
  <2>1. CASE UNCHANGED fileVars
    BY <2>1 DEF fileVars
  <2>2. CASE FilesOutputThrows(type, units)
    BY <1>0, <1>1, <2>2, FileThrows
  <2>3. ASSUME NEW ok \in BOOLEAN, FilesOutput(type, units, ok)
        PROVE  /\ opened' = opened /\ hurt \subseteq hurt'
               /\ \A f \in Files :
                    \/ content'[f] = content[f]
                    \/ /\ Takes(f, type)
                       /\ \E ret \in -1..len : content'[f] = content[f] \o SubSeq(units, 1, ret)
    BY <1>0, <1>1, <2>3, FileWrites
  <2> QED BY <1>2, <2>1, <2>2, <2>3
<1>4. ASSUME NEW f \in Files
      PROVE  Sound(f)'
  BY <1>0, <1>3, SoundAfter DEF units
<1>5. Files \ hurt' \subseteq opened'
  BY <1>0, <1>3 DEF FilesInv
<1> QED BY <1>0, <1>4, <1>5 DEF FilesInv

LEMMA FilesNext == OrderInv /\ FilesInv /\ [Next]_vars => FilesInv'
<1> SUFFICES ASSUME OrderInv, FilesInv, [Next]_vars PROVE FilesInv'
  OBVIOUS
<1>0. TypeOK /\ TypeOK'
  BY NextType DEF OrderInv
(* The files and what was received stay as they are. *)
<1>a. ASSUME UNCHANGED <<fileVars, received>>, alarms \subseteq alarms', phase = "open" => phase' = "open"
      PROVE  FilesInv'
  <2>1. \A f \in Files : (Sound(f) => Sound(f)') /\ (Whole(f) => Whole(f)')
    BY <1>a DEF fileVars, Sound, Whole, Wanted, Takes
  <2>2. hurt' = hurt /\ opened' = opened
    BY <1>a DEF fileVars
  <2>3. \A f \in Files : Sound(f)'
    BY <2>1 DEF FilesInv
  <2>4. phase' = "open" \/ Files \ hurt' \subseteq opened'
    BY <1>a, <2>2 DEF FilesInv
  <2>5. ASSUME "EXCEPTION" \notin alarms', NEW f \in Files, f \notin hurt'
        PROVE  Whole(f)'
    <3>1. Whole(f)
      BY <1>a, <2>2, <2>5 DEF FilesInv
    <3> QED BY <2>1, <3>1
  <2> QED BY <2>3, <2>4, <2>5 DEF FilesInv
<1>1. CASE Open
  <2>1. /\ received = <<>> /\ received' = received /\ opened' \subseteq Files
        /\ hurt' = hurt \cup (Files \ opened')
        /\ \A f \in Files : content'[f] = <<>> \/ content'[f] = content[f]
    BY <1>1 DEF Open, FilesOpen, OrderInv, Buffering
  <2>2. ASSUME NEW f \in Files
        PROVE  Sound(f)' /\ Whole(f)'
    <3>1. Sound(f)
      BY <2>2 DEF FilesInv
    <3>2. Len(received') = 0 /\ Len(<<>>) = 0 /\ Len(received) = 0
      BY <2>1, EmptySeq
    <3>3. Fits(content'[f], Len(received'), received', Wanted(f))
      <4>1. CASE content'[f] = <<>>
        BY <3>2, <4>1 DEF Fits
      <4>2. CASE content'[f] = content[f]
        BY <2>1, <3>1, <4>2 DEF Sound
      <4> QED BY <2>1, <2>2, <4>1, <4>2
    <3> QED BY <3>2, <3>3 DEF Sound, Whole, Wanted, Takes
  <2>3. Files \ hurt' \subseteq opened'
    BY <2>1
  <2> QED BY <2>2, <2>3 DEF FilesInv
<1>2. CASE OpenFails \/ SetupFails \/ CloseFails \/ ReadFails \/ MainLoopException
  BY <1>2, <1>a DEF OpenFails, SetupFails, CloseFails, ReadFails, MainLoopException, DispatchError
<1>3. CASE ForkFails \/ ForkSucceeds \/ StartLoop \/ LoopEnds \/ Report \/ Exit
  BY <1>3, <1>a DEF ForkFails, ForkSucceeds, StartLoop, LoopEnds, Report, Exit
<1>4. ASSUME NEW type \in OutputType, NEW len \in 0..MaxLength, Output(type, len)
      PROVE  FilesInv'
  BY <1>0, <1>4, OutputFiles
<1>5. ASSUME NEW type \in OutputType, NEW len \in 0..MaxLength, OutputThrows(type, len)
      PROVE  FilesInv'
  BY <1>0, <1>5, ThrowsFiles
<1>6. ASSUME NEW status, NEW signum, CommandTerminated(status, signum) \/ TerminatedThrows(status, signum)
      PROVE  FilesInv'
  BY <1>6, <1>a DEF CommandTerminated, TerminatedThrows, Throw
<1>7. ASSUME NEW signum, DteeInterrupted(signum) \/ InterruptedThrows(signum)
      PROVE  FilesInv'
  BY <1>7, <1>a DEF DteeInterrupted, InterruptedThrows, Throw
<1>8. CASE UNCHANGED vars
  BY <1>8, <1>a DEF vars
<1>9. CASE LoopThrows \/ ReadFailsThrows
  BY <1>9, <1>a DEF LoopThrows, ReadFailsThrows, Throw
<1> QED BY <1>1, <1>2, <1>3, <1>4, <1>5, <1>6, <1>7, <1>8, <1>9 DEF Next, Done

(* An output file misses only what it failed to write itself, and holds    *)
(* only what it is for, however many other outputs fail beside it.         *)
THEOREM FilesAlone == Spec => []FilesIndependent
<1>1. Spec => [](OrderInv /\ FilesInv)
  BY OrderInit, OrderNext, FilesInvInit, FilesNext, PTL DEF Spec
<1>2. OrderInv /\ FilesInv => FilesIndependent
  BY FilesAreIndependent DEF OrderInv
<1> QED BY <1>1, <1>2, PTL
------------------------------------------------------------------------------
(* Blocking mode *)

BlockInv ==
  /\ cron_mode \in Modes
  /\ ~cron_mode /\ phase \in {"setup", "forked", "loop"} => nonblocking = {}

LEMMA BlockNext == BlockInv /\ [Next]_vars => BlockInv'
<1> SUFFICES ASSUME BlockInv, [Next]_vars PROVE BlockInv'
  OBVIOUS
(* Only StreamOutput::open() changes the mode of the descriptors. *)
<1>a. ASSUME cron_mode' = cron_mode, nonblocking' = nonblocking,
             ~cron_mode /\ phase' \in {"setup", "forked", "loop"} =>
               phase \in {"setup", "forked", "loop"}
      PROVE  BlockInv'
  BY <1>a DEF BlockInv
<1>1. CASE Open
  BY <1>1 DEF Open, FirstOpen, StreamOpen, BlockInv
<1>b. ASSUME NEW type, DispatchError(type)
      PROVE  nonblocking' = nonblocking
  BY <1>b DEF DispatchError, CronError, Reveal, cronVars
<1>2. CASE OpenFails \/ SetupFails \/ CloseFails \/ ReadFails \/ MainLoopException
  BY <1>2, <1>a, <1>b DEF OpenFails, SetupFails, CloseFails, ReadFails, MainLoopException
<1>3. CASE ForkFails \/ ForkSucceeds \/ StartLoop \/ LoopEnds \/ Exit
  BY <1>3, <1>a DEF ForkFails, ForkSucceeds, StartLoop, LoopEnds, Exit, cronVars
<1>4. CASE Report
  BY <1>4, <1>a DEF Report, CronReport, cronVars
<1>c. ASSUME NEW type, NEW units, NEW ok, FirstOutput(type, units, ok)
      PROVE  nonblocking' = nonblocking
  BY <1>c DEF FirstOutput, CronOutput, StreamOnly
<1>5. ASSUME NEW type, NEW len, Output(type, len)
      PROVE  BlockInv'
  BY <1>5, <1>a, <1>c DEF Output, DispatchOutput
(* The loop is left, and nothing touches the mode on the way. *)
<1>d. ASSUME Throw, nonblocking' = nonblocking
      PROVE  BlockInv'
  BY <1>a, <1>d DEF Throw
<1>e. ASSUME NEW type, NEW units, CronOutputThrows(type, units)
      PROVE  nonblocking' = nonblocking
  BY <1>e DEF CronOutputThrows, UnspoolThrows, SpoolThrows
<1>6. ASSUME NEW type, NEW len, OutputThrows(type, len)
      PROVE  BlockInv'
  BY <1>6, <1>c, <1>d, <1>e DEF OutputThrows, DispatchOutput, cronVars
<1>10. CASE LoopThrows \/ ReadFailsThrows
  BY <1>10, <1>d DEF LoopThrows, ReadFailsThrows, CronErrorThrows, UnspoolThrows, cronVars
<1>11. ASSUME NEW status, NEW signum, TerminatedThrows(status, signum)
       PROVE  BlockInv'
  BY <1>11, <1>d DEF TerminatedThrows, CronTerminated, cronVars
<1>12. ASSUME NEW signum, InterruptedThrows(signum)
       PROVE  BlockInv'
  BY <1>12, <1>d DEF InterruptedThrows, CronInterrupted, CronInterruptedThrows, Reveal,
     UnspoolThrows, cronVars
<1>7. ASSUME NEW status, NEW signum, CommandTerminated(status, signum)
      PROVE  BlockInv'
  BY <1>7, <1>a DEF CommandTerminated, CronTerminated, cronVars
<1>8. ASSUME NEW signum, DteeInterrupted(signum)
      PROVE  BlockInv'
  BY <1>8, <1>a DEF DteeInterrupted, CronInterrupted, Reveal, cronVars
<1>9. CASE UNCHANGED vars
  BY <1>9, <1>a DEF vars, cronVars
<1> QED
  BY <1>1, <1>2, <1>3, <1>4, <1>5, <1>6, <1>7, <1>8, <1>9, <1>10, <1>11, <1>12 DEF Next, Done

(* Without cron mode the main loop never writes to an original output that *)
(* is in non-blocking mode.  (In cron mode it does: see the README.)       *)
THEOREM BlockingWithoutCron == Modes \subseteq {FALSE} /\ Spec => []StreamsBlocking
<1>1. Init => BlockInv
  BY DEF Init, BlockInv
<1>2. Spec => []BlockInv
  BY <1>1, BlockNext, PTL DEF Spec
<1>3. Modes \subseteq {FALSE} /\ BlockInv => StreamsBlocking
  BY DEF BlockInv, StreamsBlocking
<1>4. CASE Modes \subseteq {FALSE}
  <2>1. BlockInv => StreamsBlocking
    BY <1>3, <1>4
  <2> QED BY <1>2, <2>1, PTL
<1> QED BY <1>4
------------------------------------------------------------------------------
(* The original outputs *)

Shows(s) == \A n \in 1..Len(received) : Holds(s, n)

(* What is not held back has been shown, unless something failed. *)
ShowsInv == ~buffered /\ ~ioFailed /\ "EXCEPTION" \notin alarms => Shows(stream)

LEMMA TaggedHolds ==
  ASSUME NEW fd \in OutputType, NEW units \in Seq(Unit), NEW base \in Nat, Numbered(units, base),
         NEW n \in (base + 1)..(base + Len(units))
  PROVE  Tagged(fd, units) \in Seq(Shown) /\ Holds(Tagged(fd, units), n)
<1> DEFINE shown == Tagged(fd, units)
<1>1. shown \in Seq(Shown) /\ Len(shown) = Len(units) /\ \A i \in 1..Len(units) : shown[i].seq = units[i].seq
  BY TaggedProperties
<1> HIDE DEF shown
<1>2. \A i \in 1..Len(shown) : shown[i].seq = base + i
  BY <1>1 DEF Numbered
<1>3. Holds(shown, n)
  BY <1>1, <1>2, HoldsRun
<1> QED BY <1>1, <1>3 DEF shown

(* Reading back the whole buffer file shows everything that was held. *)
LEMMA UnspooledShows ==
  ASSUME OrderInv, ShowsInv, ~ioFailed, "EXCEPTION" \notin alarms, NEW r \in Unspooled, r.ok
  PROVE  stream \o r.out \in Seq(Shown) /\ Shows(stream \o r.out)
<1>0. stream \in Seq(Shown) /\ spool \in Seq(Unit) /\ "STDOUT" \in OutputType /\ Len(received) \in Nat
  BY LenProperties DEF OrderInv, TypeOK, StreamTypeOK, CronTypeOK, OutputType
<1>1. CASE buffered
  <2>1. r.out = Tagged("STDOUT", spool) /\ stream = <<>> /\ Len(spool) = Len(received) /\ Numbered(spool, 0)
    <3>1. r \in Readback(spool)
      BY <1>1 DEF Unspooled
    <3>2. r = [out |-> Tagged("STDOUT", spool), ok |-> TRUE]
      <4>1. CASE r # [out |-> Tagged("STDOUT", spool), ok |-> TRUE]
        <5>1. PICK f \in Survivors(Len(spool)) :
                r = [out |-> Tagged("STDOUT", [i \in DOMAIN f |-> spool[f[i]]]), ok |-> FALSE]
          BY <3>1, <4>1 DEF Readback
        <5> QED BY <5>1
      <4> QED BY <4>1
    <3> QED BY <1>1, <3>2 DEF OrderInv, Buffering, StillHeld, Breaking
  <2>2. r.out \in Seq(Shown)
    BY <1>0, <2>1, TaggedProperties
  <2>3. stream \o r.out = r.out
    BY <2>1, <2>2, ConcatEmptySeq
  <2>4. \A n \in 1..Len(received) : Holds(r.out, n)
    <3>1. \A n \in 1..Len(received) : n \in (0 + 1)..(0 + Len(spool))
      BY <1>0, <2>1
    <3> QED BY <1>0, <2>1, <3>1, TaggedHolds
  <2> QED BY <2>2, <2>3, <2>4 DEF Shows
<1>2. CASE ~buffered
  <2>1. r.out = <<>>
    BY <1>2 DEF Unspooled
  <2>2. stream \o r.out = stream
    BY <1>0, <2>1, ConcatEmptySeq
  <2> QED BY <1>0, <1>2, <2>2 DEF ShowsInv
<1> QED BY <1>1, <1>2

(* A message that is written whole adds itself. *)
LEMMA WrittenShows ==
  ASSUME TypeOK, NEW s \in Seq(Shown), Shows(s), NEW type \in OutputType, NEW len \in Nat,
         Receive(type, len), NEW w \in StreamResults(type, Message(type, len)), w.ok
  PROVE  \A n \in 1..Len(received') : Holds(s \o w.out, n)
<1> DEFINE units == Message(type, len)
           part == SubSeq(units, 1, len)
           c == s \o w.out
<1>0. /\ units \in Seq(Unit) /\ Len(units) = len /\ Numbered(units, Len(received))
      /\ Len(received') = Len(received) + len /\ Len(received) \in Nat
  BY ReceiveProperties, LenProperties DEF TypeOK
<1>1. w.out = Tagged(type, part)
  <2>1. PICK ret \in -1..Len(units) :
          w = [out |-> Tagged(type, SubSeq(units, 1, ret)), ok |-> ret = Len(units)]
    BY DEF StreamResults, WriteReturns
  <2>2. ret = len
    BY <1>0, <2>1
  <2> QED BY <2>1, <2>2
<1> HIDE DEF units
<1>2. part \in Seq(Unit) /\ Len(part) = len /\ Numbered(part, Len(received))
  BY <1>0, NumberedTaken
<1> HIDE DEF part
<1>3. w.out \in Seq(Shown)
  BY <1>1, <1>2, TaggedProperties
<1>4. ASSUME NEW n \in 1..(Len(received) + len)
      PROVE  Holds(c, n)
  <2>1. CASE n <= Len(received)
    <3>1. Holds(s, n)
      BY <1>0, <1>4, <2>1 DEF Shows
    <3> QED BY <1>3, <3>1, HoldsConcat
  <2>2. CASE ~(n <= Len(received))
    <3>1. n \in (Len(received) + 1)..(Len(received) + Len(part))
      BY <1>0, <1>2, <2>2
    <3>2. Holds(w.out, n)
      BY <1>0, <1>1, <1>2, <3>1, TaggedHolds
    <3> QED BY <1>3, <3>2, HoldsConcat
  <2> QED BY <2>1, <2>2
<1> QED BY <1>0, <1>4

(* What the first output does with a message. *)
LEMMA FirstOutputShows ==
  ASSUME OrderInv, ShowsInv, NEW type \in OutputType, NEW len \in Nat, Receive(type, len),
         NEW ok, FirstOutput(type, Message(type, len), ok), alarms \subseteq alarms'
  PROVE  ShowsInv'
<1> SUFFICES ASSUME ~buffered', ~ioFailed', "EXCEPTION" \notin alarms'
             PROVE  Shows(stream)'
  BY DEF ShowsInv
<1>0. TypeOK /\ stream \in Seq(Shown) /\ "EXCEPTION" \notin alarms
  BY DEF OrderInv, TypeOK, StreamTypeOK
<1> DEFINE units == Message(type, len)
<1>1. CASE ~cron_mode
  <2>1. StreamOnly(type, units, ok) /\ UNCHANGED buffered
    BY <1>1 DEF FirstOutput
  <2>2. PICK w \in StreamResults(type, units) : stream' = stream \o w.out /\ w.ok
    BY <2>1 DEF StreamOnly
  <2>3. Shows(stream)
    BY <1>0, <2>1 DEF StreamOnly, ShowsInv
  <2>4. \A n \in 1..Len(received') : Holds(stream \o w.out, n)
    BY <1>0, <2>2, <2>3, WrittenShows
  <2> QED BY <2>2, <2>4 DEF Shows
<1>2. CASE cron_mode
  <2>1. CronShows(type, units, ok)
    <3>1. ~CronSpools(type, units, ok)
      BY DEF CronSpools
    <3>2. ~CronSpoolFails(type, units, ok)
      BY DEF CronSpoolFails
    <3> QED BY <1>2, <3>1, <3>2 DEF FirstOutput, CronOutput
  <2>2. PICK r \in Unspooled, w \in StreamResults(type, units) :
          stream' = stream \o r.out \o w.out /\ r.ok /\ w.ok
    BY <2>1 DEF CronShows
  <2>3. ~ioFailed
    BY <2>1 DEF CronShows
  <2>4. stream \o r.out \in Seq(Shown) /\ Shows(stream \o r.out)
    BY <1>0, <2>2, <2>3, UnspooledShows
  <2>5. \A n \in 1..Len(received') : Holds(stream \o r.out \o w.out, n)
    BY <1>0, <2>2, <2>4, WrittenShows
  <2> QED BY <2>2, <2>5 DEF Shows
<1> QED BY <1>1, <1>2

(* Everything held is shown, or what is shown stays as it is. *)
LEMMA RevealShows ==
  ASSUME OrderInv, ShowsInv, received' = received, alarms \subseteq alarms',
         \/ UNCHANGED <<stream, ioFailed, buffered>>
         \/ \E r \in Unspooled : stream' = stream \o r.out /\ ioFailed' = (ioFailed \/ ~r.ok)
  PROVE  ShowsInv'
<1> SUFFICES ASSUME ~buffered', ~ioFailed', "EXCEPTION" \notin alarms'
             PROVE  Shows(stream)'
  BY DEF ShowsInv
<1>0. "EXCEPTION" \notin alarms
  OBVIOUS
<1>1. CASE UNCHANGED <<stream, ioFailed, buffered>>
  BY <1>0, <1>1 DEF ShowsInv, Shows
<1>2. CASE \E r \in Unspooled : stream' = stream \o r.out /\ ioFailed' = (ioFailed \/ ~r.ok)
  <2>1. PICK r \in Unspooled : stream' = stream \o r.out /\ ioFailed' = (ioFailed \/ ~r.ok)
    BY <1>2
  <2>2. ~ioFailed /\ r.ok
    BY <2>1
  <2>3. Shows(stream \o r.out)
    BY <1>0, <2>1, <2>2, UnspooledShows
  <2> QED BY <2>1, <2>3 DEF Shows
<1> QED BY <1>1, <1>2

LEMMA ShowsNext == OrderInv /\ ShowsInv /\ [Next]_vars => ShowsInv'
<1> SUFFICES ASSUME OrderInv, ShowsInv, [Next]_vars PROVE ShowsInv'
  OBVIOUS
<1>a. ASSUME NEW type, DispatchError(type), type # "WRITE_OUTPUT", received' = received
      PROVE  ShowsInv'
  BY <1>a, RevealShows DEF DispatchError, CronError, Reveal, cronVars
<1>1. CASE Open
  <2>1. Len(received') = 0
    BY <1>1, EmptySeq DEF Open, OrderInv, Buffering
  <2> QED BY <2>1 DEF ShowsInv, Shows
<1>2. CASE OpenFails \/ SetupFails \/ CloseFails \/ ReadFails \/ MainLoopException
  BY <1>2, <1>a DEF OpenFails, SetupFails, CloseFails, ReadFails, MainLoopException
<1>3. CASE ForkFails \/ ForkSucceeds \/ StartLoop \/ LoopEnds \/ Exit
  BY <1>3, RevealShows DEF ForkFails, ForkSucceeds, StartLoop, LoopEnds, Exit, cronVars
<1>4. CASE Report
  BY <1>4, RevealShows DEF Report, CronReport, cronVars
<1>5. ASSUME NEW type \in OutputType, NEW len \in 0..MaxLength, Output(type, len)
      PROVE  ShowsInv'
  <2>1. PICK ok \in BOOLEAN : FirstOutput(type, Message(type, len), ok)
    BY <1>5 DEF Output, DispatchOutput
  <2>2. len \in Nat /\ Receive(type, len) /\ alarms \subseteq alarms'
    BY <1>5, DispatchAssumption DEF Output
  <2> QED BY <2>1, <2>2, FirstOutputShows
<1>b. ASSUME "EXCEPTION" \in alarms' PROVE ShowsInv'
  BY <1>b DEF ShowsInv
<1>6. ASSUME NEW type, NEW len, OutputThrows(type, len)
      PROVE  ShowsInv'
  BY <1>6, <1>b DEF OutputThrows
<1>10. CASE LoopThrows \/ ReadFailsThrows
  BY <1>10, <1>b DEF LoopThrows, ReadFailsThrows
<1>11. ASSUME NEW status, NEW signum, TerminatedThrows(status, signum)
       PROVE  ShowsInv'
  BY <1>11, <1>b DEF TerminatedThrows
<1>12. ASSUME NEW signum, InterruptedThrows(signum)
       PROVE  ShowsInv'
  BY <1>12, <1>b DEF InterruptedThrows
<1>7. ASSUME NEW status, NEW signum, CommandTerminated(status, signum)
      PROVE  ShowsInv'
  BY <1>7, RevealShows DEF CommandTerminated, CronTerminated, cronVars
<1>8. ASSUME NEW signum, DteeInterrupted(signum)
      PROVE  ShowsInv'
  BY <1>8, RevealShows DEF DteeInterrupted, CronInterrupted, Reveal, cronVars
<1>9. CASE UNCHANGED vars
  BY <1>9, RevealShows DEF vars, cronVars
<1> QED
  BY <1>1, <1>2, <1>3, <1>4, <1>5, <1>6, <1>7, <1>8, <1>9, <1>10, <1>11, <1>12 DEF Next, Done
------------------------------------------------------------------------------
(* The story dtee tells *)

Trouble == process.error # "NONE" \/ process.interrupt_signum >= 0
           \/ (process.terminated /\ process.exit_status # EXIT_SUCCESS)
Alarmed == "ERROR" \in alarms \/ "EXCEPTION" \in alarms

(* Whatever fails is recorded before dtee can exit with success: while an  *)
(* exception is on its way that is still to come.                          *)
FailuresKnown ==
  /\ Alarmed /\ phase # "threw" => process.error # "NONE"
  /\ ioFailed \/ hurt # {} => Trouble \/ phase \in {"openFailed", "threw"}
  /\ outcome.status # -1 => outcome.status = ExitStatus(process) /\ phase = "exited"

(* The loop ends for a reason; the command ends in one of two ways.        *)
EndKnown ==
  /\ ~looping \/ phase = "looped" =>
       process.terminated \/ process.interrupt_signum >= 0 \/ Alarmed
  /\ process.terminated => process.exit_status >= 0 \/ process.exit_signum >= 0

(* There is something to report once anything is wrong, and what is held   *)
(* back until then is shown before the report.                             *)
CronReports ==
  /\ phase = "open" => ~report /\ notices = <<>>
  /\ /\ cron_mode /\ phase # "threw"
     /\ "STDERR" \in alarms \/ (process.terminated /\ process.exit_status # EXIT_SUCCESS)
     => report
  /\ buffered /\ report /\ phase # "threw" =>
       process.terminated /\ process.exit_status # EXIT_SUCCESS
  /\ cron_mode /\ phase \in {"reported", "exited"} /\ report =>
       ~buffered /\ notices = ReportLines(process)

(* Otherwise nothing is shown. *)
CronIsQuiet ==
  cron_mode /\ phase # "open" /\ alarms = {} /\ ~ioFailed /\ process.interrupt_signum < 0
  /\ (process.terminated => process.exit_status = EXIT_SUCCESS)
  => buffered /\ ~report /\ notices = <<>>

Story == FailuresKnown /\ EndKnown /\ CronReports /\ CronIsQuiet

LEMMA StoryInit == Init => Story
<1> SUFFICES ASSUME Init PROVE Story
  OBVIOUS
<1>1. /\ process = NewProcess /\ phase = "open" /\ alarms = {} /\ hurt = {} /\ ~ioFailed /\ looping
      /\ ~report /\ notices = <<>> /\ outcome.status = -1 /\ ~buffered
  BY DEF Init, CronInit, FilesInit, Running
<1>2. ~process.terminated
  BY <1>1 DEF NewProcess
<1>3. FailuresKnown
  BY <1>1, <1>2 DEF FailuresKnown, Alarmed
<1>4. EndKnown
  BY <1>1, <1>2 DEF EndKnown
<1>5. CronReports
  BY <1>1, <1>2 DEF CronReports
<1>6. CronIsQuiet
  BY <1>1 DEF CronIsQuiet
<1> QED BY <1>3, <1>4, <1>5, <1>6 DEF Story

(* process_ is told of an error, and what it says otherwise is the same.   *)
Told(type) ==
  /\ process'.error = type /\ type # "NONE"
  /\ process'.terminated = process.terminated /\ process'.exit_status = process.exit_status
  /\ process'.exit_signum = process.exit_signum
  /\ process'.interrupt_signum = process.interrupt_signum

LEMMA ErrorTold ==
  ASSUME TypeOK, NEW type \in ErrorType, type # "NONE", process' = Error(process, type)
  PROVE  Told(type) /\ Trouble'
<1>1. Told(type)
  <2>1. process \in ProcessType
    BY DEF TypeOK
  <2>2. /\ Error(process, type).error = type
        /\ Error(process, type).terminated = process.terminated
        /\ Error(process, type).exit_status = process.exit_status
        /\ Error(process, type).exit_signum = process.exit_signum
        /\ Error(process, type).interrupt_signum = process.interrupt_signum
    BY <2>1 DEF ProcessType, Error
  <2> QED BY <2>2 DEF Told
<1> QED BY <1>1 DEF Told, Trouble

(* An error other than in an output: everything that is held is shown.     *)
LEMMA ErrorStory ==
  ASSUME OrderInv, Story, NEW type \in ErrorType \ {"NONE", "WRITE_OUTPUT"}, DispatchError(type),
         UNCHANGED <<hurt, cron_mode>>, phase # "exited", phase' \notin {"open", "threw", "reported"},
         phase' = "exited" => ~cron_mode,
         outcome' = outcome \/ (phase' = "exited" /\ outcome' = Exited(ExitStatus(process')))
  PROVE  Story'
<1>1. Told(type) /\ Trouble'
  BY ErrorTold DEF DispatchError, OrderInv
<1>2. Alarmed' /\ alarms \subseteq alarms' /\ ("STDERR" \in alarms' => "STDERR" \in alarms)
  BY DEF DispatchError, Alarm, Alarmed
<1>3. cron_mode => report' /\ ~buffered'
  BY DEF DispatchError, CronError, Reveal, BufferClosed
<1>4. ~cron_mode => ~buffered'
  BY DEF DispatchError, cronVars, OrderInv, Buffering, StillHeld
<1>5. FailuresKnown'
  <2>1. outcome.status = -1
    BY DEF Story, FailuresKnown
  <2>2. outcome'.status # -1 => outcome'.status = ExitStatus(process') /\ phase' = "exited"
    BY <2>1 DEF Exited
  <2> QED BY <1>1, <2>2 DEF FailuresKnown, Told
<1>6. EndKnown'
  BY <1>1, <1>2 DEF EndKnown, Story, Told
<1>7. CronReports'
  BY <1>1, <1>2, <1>3, <1>4 DEF CronReports, Story, Told
<1>8. CronIsQuiet'
  BY <1>2 DEF CronIsQuiet, Alarmed
<1> QED BY <1>5, <1>6, <1>7, <1>8 DEF Story

(* An exception is on its way. *)
LEMMA ThrowStory ==
  ASSUME Story, Throw, "EXCEPTION" \in alarms',
         process'.terminated => process'.exit_status >= 0 \/ process'.exit_signum >= 0
  PROVE  Story'
<1>0. phase = "loop" /\ phase' = "threw" /\ outcome' = outcome
  BY DEF Throw
<1>1. FailuresKnown'
  BY <1>0 DEF Story, FailuresKnown
<1>2. EndKnown'
  BY DEF EndKnown, Alarmed
<1>3. CronReports'
  BY <1>0 DEF CronReports
<1>4. CronIsQuiet'
  BY DEF CronIsQuiet
<1> QED BY <1>1, <1>2, <1>3, <1>4 DEF Story

(* What the first output and the output files do with a message. *)
LEMMA OutputStory ==
  ASSUME TypeOK, Story, Buffering, NEW type \in OutputType, NEW len \in 0..MaxLength,
         Output(type, len)
  PROVE  Story'
<1>0. /\ phase = "loop" /\ phase' = "loop" /\ cron_mode' = cron_mode /\ looping' = looping
      /\ outcome' = outcome /\ alarms \subseteq alarms' /\ FilesTypeOK
      /\ (Alarmed' <=> Alarmed) /\ ("STDERR" \in alarms' => "STDERR" \in alarms \/ type = "STDERR")
  BY DEF Output, Alarmed, TypeOK
<1>1. PICK ok1 \in BOOLEAN, ok2 \in BOOLEAN :
        /\ FirstOutput(type, Message(type, len), ok1)
        /\ FilesOutput(type, Message(type, len), ok2)
        /\ IF ok1 /\ ok2
           THEN UNCHANGED <<process, result>>
           ELSE process' = Error(process, "WRITE_OUTPUT")
  BY DEF Output, DispatchOutput
<1>2. len \in Nat /\ Message(type, len) \in Seq(Unit)
  BY DispatchAssumption, MessageType DEF TypeOK
<1>3. hurt' # hurt => ~ok2
  BY <1>0, <1>1, <1>2, FileWrites
<1>4. \/ Told("WRITE_OUTPUT") /\ Trouble'
      \/ process' = process /\ ok1 /\ ok2
  BY <1>1, ErrorTold DEF ErrorType
(* What the first output says of itself. *)
<1>5. /\ ioFailed => ioFailed'
      /\ ioFailed' => ioFailed \/ ~ok1
      /\ ~cron_mode => (buffered' <=> buffered) /\ (report' <=> report) /\ notices' = notices
      /\ cron_mode =>
           /\ report => report'
           /\ \/ buffered' /\ (report' <=> report) /\ buffered /\ type = "STDOUT"
              \/ ~buffered' /\ ioFailed' /\ type = "STDOUT"
              \/ ~buffered' /\ type = "STDERR" /\ report'
              \/ ~buffered' /\ ~buffered /\ (report' <=> report) /\ type = "STDOUT"
           /\ notices' = notices
  <2>1. CASE ~cron_mode
    BY <1>1, <2>1 DEF FirstOutput, StreamOnly
  <2>2. CASE CronSpools(type, Message(type, len), ok1) /\ notices' = notices /\ cron_mode
    BY <2>2 DEF CronSpools
  <2>3. CASE CronSpoolFails(type, Message(type, len), ok1) /\ notices' = notices /\ cron_mode
    BY <2>3 DEF CronSpoolFails, BufferClosed
  <2>4. CASE CronShows(type, Message(type, len), ok1) /\ notices' = notices /\ cron_mode
    BY <2>4 DEF CronShows, BufferClosed, OutputType
  <2> QED BY <1>1, <2>1, <2>2, <2>3, <2>4 DEF FirstOutput, CronOutput
<1>6. FailuresKnown'
  <2>1. outcome.status = -1
    BY <1>0 DEF Story, FailuresKnown
  <2>2. CASE Told("WRITE_OUTPUT") /\ Trouble'
    BY <1>0, <2>1, <2>2 DEF FailuresKnown, Told
  <2>3. CASE process' = process /\ ok1 /\ ok2
    <3>1. (ioFailed' <=> ioFailed) /\ hurt' = hurt
      BY <1>3, <1>5, <2>3
    <3> QED BY <1>0, <2>1, <2>3, <3>1 DEF Story, FailuresKnown, Trouble
  <2> QED BY <1>4, <2>2, <2>3
<1>7. EndKnown'
  BY <1>0, <1>4 DEF Story, EndKnown, Told
<1>8. CronReports'
  <2>1. process'.terminated = process.terminated /\ process'.exit_status = process.exit_status
    BY <1>4 DEF Told
  <2>2. buffered => cron_mode
    BY DEF Buffering, StillHeld
  <2> QED BY <1>0, <1>5, <2>1, <2>2 DEF Story, CronReports
<1>9. CronIsQuiet'
  <2>1. /\ process'.terminated = process.terminated /\ process'.exit_status = process.exit_status
        /\ process'.interrupt_signum = process.interrupt_signum
    BY <1>4 DEF Told
  <2>2. ioFailed => ioFailed'
    BY <1>5
  <2>3. type = "STDERR" => alarms' # {}
    BY DEF Output
  <2>4. alarms' = {} => alarms = {}
    BY <1>0
  <2> QED BY <1>0, <1>5, <2>1, <2>2, <2>3, <2>4 DEF Story, CronIsQuiet, OutputType
<1> QED BY <1>6, <1>7, <1>8, <1>9 DEF Story

LEMMA TerminatedStory ==
  ASSUME TypeOK, Story, NEW status, NEW signum, status >= 0 \/ signum >= 0,
         CommandTerminated(status, signum)
  PROVE  Story'
<1>0. /\ phase = "loop" /\ phase' = "loop" /\ cron_mode' = cron_mode /\ hurt' = hurt
      /\ outcome' = outcome /\ alarms' = alarms /\ ~process.terminated /\ process \in ProcessType
      /\ process' = Terminated(process, status, signum)
  BY DEF CommandTerminated, fileVars, TypeOK
<1>1. /\ process'.error = process.error /\ process'.terminated
      /\ process'.exit_status = status /\ process'.exit_signum = signum
      /\ process'.interrupt_signum = process.interrupt_signum
  BY <1>0 DEF ProcessType, Terminated
<1>2. /\ ioFailed' = ioFailed /\ buffered' = buffered /\ notices' = notices
      /\ ~cron_mode => report' = report
      /\ cron_mode => (report' <=> report \/ status # EXIT_SUCCESS)
  BY DEF CommandTerminated, CronTerminated, cronVars
<1>3. FailuresKnown'
  <2>1. Trouble => Trouble'
    BY <1>0, <1>1 DEF Trouble
  <2> QED BY <1>0, <1>1, <1>2, <2>1 DEF Story, FailuresKnown, Alarmed
<1>4. EndKnown'
  BY <1>1 DEF EndKnown
<1>5. CronReports'
  BY <1>0, <1>1, <1>2 DEF Story, CronReports
<1>6. CronIsQuiet'
  BY <1>0, <1>1, <1>2 DEF Story, CronIsQuiet
<1> QED BY <1>3, <1>4, <1>5, <1>6 DEF Story

LEMMA InterruptStory ==
  ASSUME TypeOK, Story, NEW signum \in SignalNumber, DteeInterrupted(signum)
  PROVE  Story'
<1>0. /\ phase = "loop" /\ phase' = "loop" /\ cron_mode' = cron_mode /\ hurt' = hurt
      /\ outcome' = outcome /\ alarms' = alarms /\ process \in ProcessType
      /\ process' = Interrupted(process, signum)
  BY DEF DteeInterrupted, fileVars, TypeOK
<1>1. /\ process'.error = process.error /\ process'.terminated = process.terminated
      /\ process'.exit_status = process.exit_status /\ process'.exit_signum = process.exit_signum
      /\ process'.interrupt_signum \in 1..64
  BY <1>0 DEF ProcessType, Interrupted, SignalNumber
<1>2. /\ ~cron_mode => ioFailed' = ioFailed /\ buffered' = buffered /\ report' = report /\ notices' = notices
      /\ cron_mode => report' /\ ~buffered'
  BY DEF DteeInterrupted, CronInterrupted, Reveal, BufferClosed, cronVars
<1>3. FailuresKnown'
  BY <1>0, <1>1 DEF Story, FailuresKnown, Alarmed, Trouble
<1>4. EndKnown'
  BY <1>1 DEF Story, EndKnown
<1>5. CronReports'
  BY <1>0, <1>1, <1>2 DEF Story, CronReports
<1>6. CronIsQuiet'
  <2>1. ~(process'.interrupt_signum < 0)
    BY <1>1
  <2> QED BY <2>1 DEF CronIsQuiet
<1> QED BY <1>3, <1>4, <1>5, <1>6 DEF Story

LEMMA ReportStory ==
  ASSUME OrderInv, AgreeInv, Story, Report
  PROVE  Story'
<1>0. /\ phase = "looped" /\ phase' = "reported" /\ cron_mode' = cron_mode /\ hurt' = hurt
      /\ outcome' = outcome /\ alarms' = alarms /\ process' = process
  BY DEF Report, fileVars
<1>1. cron_mode => result = process
  BY <1>0 DEF AgreeInv, ReportAgrees
<1>2. \/ /\ (ioFailed' <=> ioFailed) /\ (buffered' <=> buffered) /\ (report' <=> report) /\ notices' = notices
         /\ cron_mode => process.terminated /\ ~report
      \/ /\ cron_mode /\ ~buffered' /\ (report' <=> report) /\ notices' = ReportLines(process)
         /\ ~process.terminated \/ report
         /\ (ioFailed => ioFailed') /\ (ioFailed' => ioFailed \/ buffered)
  <2>1. CASE ~cron_mode
    BY <2>1 DEF Report, cronVars
  <2>2. CASE cron_mode /\ process.terminated /\ ~report
    BY <1>1, <2>2 DEF Report, CronReport, cronVars
  <2>3. CASE cron_mode /\ ~(process.terminated /\ ~report)
    <3>1. PICK r \in Unspooled : ioFailed' = (ioFailed \/ ~r.ok)
      BY <1>1, <2>3 DEF Report, CronReport
    <3>2. ~buffered => r.ok
      BY DEF Unspooled
    <3>4. (ioFailed => ioFailed') /\ (ioFailed' => ioFailed \/ buffered)
      BY <3>1, <3>2
    <3> QED BY <1>1, <2>3, <3>4 DEF Report, CronReport, BufferClosed
  <2> QED BY <2>1, <2>2, <2>3
<1>3. FailuresKnown'
  <2>1. Trouble' = Trouble /\ Alarmed' = Alarmed
    BY <1>0 DEF Trouble, Alarmed
  <2>2. ioFailed' => ioFailed \/ Trouble
    BY <1>0, <1>2 DEF Story, FailuresKnown, EndKnown, CronReports, Trouble
  <2> QED BY <1>0, <2>1, <2>2 DEF Story, FailuresKnown
<1>4. EndKnown'
  BY <1>0 DEF Story, EndKnown, Alarmed
<1>5. CronReports'
  BY <1>0, <1>2 DEF Story, CronReports
<1>6. CronIsQuiet'
  <2> SUFFICES ASSUME cron_mode, alarms = {}, ~ioFailed', process.interrupt_signum < 0,
                      process.terminated => process.exit_status = EXIT_SUCCESS
               PROVE  buffered' /\ ~report' /\ notices' = <<>>
    BY <1>0 DEF CronIsQuiet
  <2>1. process \in ProcessType
    BY DEF AgreeInv, TypeOK
  <2>2. ~(process.interrupt_signum >= 0)
    BY <2>1 DEF ProcessType, SignalNumber
  <2>3. process.terminated
    BY <1>0, <2>2 DEF Story, EndKnown, Alarmed
  <2>4. ~ioFailed
    BY <1>2
  <2>5. buffered /\ ~report /\ notices = <<>>
    BY <1>0, <2>3, <2>4 DEF Story, CronIsQuiet
  <2> QED BY <1>2, <2>3, <2>5
<1> QED BY <1>3, <1>4, <1>5, <1>6 DEF Story

LEMMA OpenStory ==
  ASSUME TypeOK, Story, Open
  PROVE  Story'
<1>1. PICK ok1 \in BOOLEAN, ok2 \in BOOLEAN :
        FirstOpen(ok1) /\ FilesOpen(ok2) /\ phase' = IF ok1 /\ ok2 THEN "setup" ELSE "openFailed"
  BY DEF Open
<1>2. /\ phase = "open" /\ process' = process /\ alarms' = alarms /\ outcome' = outcome
      /\ cron_mode' = cron_mode /\ looping' = looping
  BY DEF Open
<1>3. /\ (report' <=> report) /\ notices' = notices
      /\ ok1 => (ioFailed' <=> ioFailed)
      /\ cron_mode => (buffered' <=> ok1) /\ (ioFailed' <=> ioFailed \/ ~ok1)
      /\ ~cron_mode => (buffered' <=> buffered)
  BY <1>1 DEF FirstOpen, CronOpen, StreamOpen
<1>4. ok2 => hurt' = hurt
  BY <1>1 DEF FilesOpen
<1>5. FailuresKnown'
  <2>1. Trouble' = Trouble /\ Alarmed' = Alarmed
    BY <1>2 DEF Trouble, Alarmed
  <2>2. CASE ok1 /\ ok2
    BY <1>2, <1>3, <1>4, <2>1, <2>2 DEF Story, FailuresKnown
  <2>3. CASE ~(ok1 /\ ok2)
    BY <1>1, <1>2, <2>1, <2>3 DEF Story, FailuresKnown
  <2> QED BY <2>2, <2>3
<1>6. EndKnown'
  BY <1>1, <1>2 DEF Story, EndKnown, Alarmed
<1>7. CronReports'
  BY <1>1, <1>2, <1>3 DEF Story, CronReports
<1>8. CronIsQuiet'
  BY <1>2, <1>3 DEF Story, CronReports, CronIsQuiet
<1> QED BY <1>5, <1>6, <1>7, <1>8 DEF Story

LEMMA ForkFailsStory ==
  ASSUME TypeOK, Story, ForkFails
  PROVE  Story'
<1>1. Told("FORK") /\ Trouble'
  BY ErrorTold DEF ForkFails, ErrorType
<1>2. /\ Alarmed' /\ ("STDERR" \in alarms' => "STDERR" \in alarms)
      /\ phase = "setup" /\ (phase' = IF cron_mode THEN "execute" ELSE "exited") /\ cron_mode' = cron_mode
      /\ UNCHANGED <<report, notices, buffered, ioFailed, hurt>>
      /\ IF cron_mode THEN outcome' = outcome ELSE outcome' = Exited(ExitStatus(process'))
  BY DEF ForkFails, Alarm, Alarmed, GiveUp, cronVars, fileVars
<1>3. FailuresKnown'
  BY <1>1, <1>2 DEF Story, FailuresKnown, Told, Exited
<1>4. EndKnown'
  BY <1>1, <1>2 DEF Story, EndKnown, Told
<1>5. CronReports'
  BY <1>1, <1>2 DEF Story, CronReports, Told
<1>6. CronIsQuiet'
  BY <1>2 DEF CronIsQuiet, Alarmed
<1> QED BY <1>3, <1>4, <1>5, <1>6 DEF Story

LEMMA StoryNext == OrderInv /\ AgreeInv /\ Story /\ [Next]_vars => Story'
<1> SUFFICES ASSUME OrderInv, AgreeInv, Story, [Next]_vars PROVE Story'
  OBVIOUS
<1>0. TypeOK /\ Buffering
  BY DEF OrderInv
(* Only the place in run() and whether the loop goes on changes. *)
<1>a. ASSUME UNCHANGED <<cronVars, fileVars, cron_mode, process, looping, received, alarms, outcome>>,
             phase' = phase \/ <<phase, phase'>> \in {<<"setup", "forked">>, <<"forked", "loop">>}
             \/ (phase = "loop" /\ ~looping /\ phase' = "looped")
      PROVE  Story'
  <2>1. Trouble' = Trouble /\ Alarmed' = Alarmed
    BY <1>a DEF Trouble, Alarmed
  <2>2. FailuresKnown'
    BY <1>a, <2>1 DEF Story, FailuresKnown, cronVars, fileVars
  <2>3. EndKnown'
    BY <1>a, <2>1 DEF Story, EndKnown
  <2>4. CronReports'
    BY <1>a DEF Story, CronReports, cronVars
  <2>5. CronIsQuiet'
    BY <1>a DEF Story, CronIsQuiet, cronVars
  <2> QED BY <2>2, <2>3, <2>4, <2>5 DEF Story
<1>1. CASE Open
  BY <1>0, <1>1, OpenStory
<1>2. CASE OpenFails
  BY <1>2, ErrorStory DEF OpenFails, GiveUp, ErrorType, fileVars
<1>3. CASE SetupFails
  <2>1. PICK type \in {"OPEN_INPUT", "SIGNAL_HANDLER"} : DispatchError(type)
    BY <1>3 DEF SetupFails
  <2> QED BY <1>3, <2>1, ErrorStory DEF SetupFails, GiveUp, ErrorType, fileVars
<1>4. CASE ForkFails
  BY <1>0, <1>4, ForkFailsStory
<1>5. CASE ForkSucceeds \/ StartLoop \/ LoopEnds
  BY <1>5, <1>a DEF ForkSucceeds, StartLoop, LoopEnds
<1>6. CASE CloseFails \/ ReadFails \/ MainLoopException
  BY <1>6, ErrorStory DEF CloseFails, ReadFails, MainLoopException, ErrorType, fileVars
<1>7. ASSUME NEW type \in OutputType, NEW len \in 0..MaxLength, Output(type, len)
      PROVE  Story'
  BY <1>0, <1>7, OutputStory
(* How the command ended is as known as before. *)
<1>b. process.terminated => process.exit_status >= 0 \/ process.exit_signum >= 0
  BY DEF Story, EndKnown
<1>c. ASSUME NEW type \in ErrorType, type # "NONE", process' = Error(process, type)
      PROVE  process'.terminated => process'.exit_status >= 0 \/ process'.exit_signum >= 0
  BY <1>0, <1>b, <1>c, ErrorTold DEF Told
<1>8. ASSUME NEW type, NEW len, OutputThrows(type, len)
      PROVE  Story'
  <2>1. process' = process \/ process' = Error(process, "WRITE_OUTPUT")
    BY <1>8 DEF OutputThrows, DispatchOutput
  <2>2. process'.terminated => process'.exit_status >= 0 \/ process'.exit_signum >= 0
    BY <1>b, <1>c, <2>1 DEF ErrorType
  <2> QED BY <1>8, <2>2, ThrowStory DEF OutputThrows
<1>15. CASE LoopThrows
  BY <1>15, <1>b, ThrowStory DEF LoopThrows
<1>16. CASE ReadFailsThrows
  <2>1. process'.terminated => process'.exit_status >= 0 \/ process'.exit_signum >= 0
    BY <1>16, <1>c DEF ReadFailsThrows, ErrorType
  <2> QED BY <1>16, <2>1, ThrowStory DEF ReadFailsThrows
<1>17. ASSUME NEW signum, InterruptedThrows(signum)
       PROVE  Story'
  <2>1. /\ process'.terminated = process.terminated /\ process'.exit_status = process.exit_status
        /\ process'.exit_signum = process.exit_signum
    BY <1>0, <1>17 DEF InterruptedThrows, Interrupted, TypeOK, ProcessType
  <2> QED BY <1>17, <1>b, <2>1, ThrowStory DEF InterruptedThrows
<1>d. ASSUME NEW status, NEW signum, status >= 0 \/ signum >= 0, TerminatedThrows(status, signum)
      PROVE  Story'
  <2>1. process'.exit_status = status /\ process'.exit_signum = signum
    BY <1>0, <1>d DEF TerminatedThrows, Terminated, TypeOK, ProcessType
  <2> QED BY <1>d, <2>1, ThrowStory DEF TerminatedThrows
<1>9. ASSUME NEW status \in ExitCodes, CommandTerminated(status, -1) \/ TerminatedThrows(status, -1)
      PROVE  Story'
  <2>1. status >= 0
    BY SignalTypes DEF ExitCode
  <2> QED BY <1>0, <1>9, <1>d, <2>1, TerminatedStory
<1>10. ASSUME NEW signum \in DeathSignals,
              CommandTerminated(-1, signum) \/ TerminatedThrows(-1, signum)
       PROVE  Story'
  <2>1. signum >= 0
    BY SignalTypes DEF SignalNumber
  <2> QED BY <1>0, <1>10, <1>d, <2>1, TerminatedStory
<1>11. ASSUME NEW signum \in InterruptSignals, DteeInterrupted(signum)
       PROVE  Story'
  BY <1>0, <1>11, SignalTypes, InterruptStory
<1>12. CASE Report
  BY <1>12, ReportStory
<1>13. CASE Exit
  <2>1. /\ phase = "reported" /\ phase' = "exited"
        /\ UNCHANGED <<cronVars, fileVars, cron_mode, process, looping, alarms>>
    BY <1>13 DEF Exit
  <2>2. outcome'.status # -1 => outcome'.status = ExitStatus(process')
    BY <1>13 DEF Exit, Killed, Exited
  <2>3. Trouble' = Trouble /\ Alarmed' = Alarmed
    BY <2>1 DEF Trouble, Alarmed
  <2>4. FailuresKnown'
    BY <2>1, <2>2, <2>3 DEF Story, FailuresKnown, cronVars, fileVars
  <2>5. EndKnown'
    BY <2>1, <2>3 DEF Story, EndKnown
  <2>6. CronReports'
    BY <2>1 DEF Story, CronReports, cronVars
  <2>7. CronIsQuiet'
    BY <2>1 DEF Story, CronIsQuiet, cronVars
  <2> QED BY <2>4, <2>5, <2>6, <2>7 DEF Story
<1>14. CASE UNCHANGED vars
  BY <1>14, <1>a DEF vars
<1> QED
  BY <1>1, <1>2, <1>3, <1>4, <1>5, <1>6, <1>7, <1>8, <1>9, <1>10, <1>11, <1>12, <1>13, <1>14,
     <1>15, <1>16, <1>17 DEF Next, Done
------------------------------------------------------------------------------
(* What follows *)

LossInv == OrderInv /\ AgreeInv /\ FilesInv /\ ShowsInv /\ Story

LEMMA LossInit == Init => LossInv
<1>1. Init => AgreeInv
  BY InitType DEF Init, CronInit, AgreeInv, ReportAgrees
<1>2. Init => ShowsInv
  BY EmptySeq DEF Init, ShowsInv, Shows
<1> QED BY <1>1, <1>2, OrderInit, FilesInvInit, StoryInit DEF LossInv

LEMMA LossNext == LossInv /\ [Next]_vars => LossInv'
BY OrderNext, AgreeNext, FilesNext, ShowsNext, StoryNext DEF LossInv

LEMMA Lossless == Spec => []LossInv
BY LossInit, LossNext, PTL DEF Spec

(* Only an undisturbed dtee exits with success. *)
LEMMA SuccessIsClean ==
  ASSUME LossInv, outcome.status = EXIT_SUCCESS
  PROVE  ~Trouble /\ ~ioFailed /\ hurt = {} /\ "EXCEPTION" \notin alarms
<1>1. process \in ProcessType /\ ExitStatus(process) = 0 /\ phase = "exited"
  BY DEF LossInv, OrderInv, TypeOK, Story, FailuresKnown, EXIT_SUCCESS
<1>2. process.error = "NONE"
  BY <1>1 DEF ProcessType, ErrorType, ExitStatus, ErrorExitCode, EX_CANTCREAT, EX_UNAVAILABLE,
              EX_OSERR, EX_IOERR, EX_NOINPUT, EX_SOFTWARE
<1>3. process.interrupt_signum \in Int /\ process.exit_status \in Int /\ process.exit_signum \in Int
  BY <1>1 DEF ProcessType, ExitCode, SignalNumber
<1>4. ~(process.interrupt_signum >= 0) /\ process.exit_status = 0
  BY <1>1, <1>2, <1>3 DEF ExitStatus, SHELL_EXIT_CODE_SIGNAL, EX_SOFTWARE
<1>5. ~Trouble
  BY <1>2, <1>4 DEF Trouble, EXIT_SUCCESS
<1> QED BY <1>1, <1>2, <1>5 DEF LossInv, Story, FailuresKnown, Alarmed

(* dtee never returns success with output missing, whatever failed.        *)
THEOREM LossIsNotSilent == Spec => []NoSilentLoss
<1>1. LossInv => NoSilentLoss
  <2> SUFFICES ASSUME LossInv, outcome.status = EXIT_SUCCESS, NEW n \in 1..Len(received)
               PROVE  /\ buffered \/ Holds(stream, n)
                      /\ \A f \in Files : Takes(f, received[n]) => Holds(content[f], n)
    BY DEF NoSilentLoss
  <2>1. ~ioFailed /\ hurt = {} /\ "EXCEPTION" \notin alarms
    BY SuccessIsClean
  <2>2. buffered \/ Holds(stream, n)
    BY <2>1 DEF LossInv, ShowsInv, Shows
  <2>3. ASSUME NEW f \in Files
        PROVE  Takes(f, received[n]) => Holds(content[f], n)
    <3>1. f \in Files \ hurt
      BY <2>1, <2>3
    <3> QED BY <2>1, <3>1 DEF LossInv, FilesInv, Whole
  <2> QED BY <2>2, <2>3
<1> QED BY <1>1, Lossless, PTL

(* Cron mode shows nothing of a command that succeeds and reports nothing, *)
(* also when output files fail.                                            *)
THEOREM CronKeepsQuiet == Spec => []QuietOnSuccess
<1>1. LossInv => QuietOnSuccess
  <2> SUFFICES ASSUME LossInv, cron_mode, phase = "exited", process.exit_status = EXIT_SUCCESS,
                      process.interrupt_signum < 0, alarms = {}, ~ioFailed
               PROVE  stream = <<>> /\ notices = <<>>
    BY DEF QuietOnSuccess
  <2>1. buffered /\ notices = <<>>
    BY DEF LossInv, Story, CronIsQuiet
  <2> QED BY <2>1 DEF LossInv, OrderInv, Buffering, StillHeld
<1> QED BY <1>1, Lossless, PTL

LEMMA LastLine ==
  ASSUME NEW p \in ProcessType
  PROVE  /\ p.exit_status >= 0 => \E i \in DOMAIN ReportLines(p) : ReportLines(p)[i] = <<"exited", p.exit_status>>
         /\ p.exit_status < 0 /\ p.exit_signum >= 0 =>
              \E i \in DOMAIN ReportLines(p) : ReportLines(p)[i] = <<"killed", p.exit_signum>>
<1> DEFINE T == {"received", "exited", "killed"} \X Int
           x == <<"received", p.interrupt_signum>>
           y == <<"exited", p.exit_status>>
           z == <<"killed", p.exit_signum>>
           a == IF p.interrupt_signum >= 0 THEN <<x>> ELSE <<>>
           b == IF p.exit_status >= 0 THEN <<y>> ELSE IF p.exit_signum >= 0 THEN <<z>> ELSE <<>>
           c == a \o b
<1>1. p.interrupt_signum \in Int /\ p.exit_status \in Int /\ p.exit_signum \in Int
  BY DEF ProcessType, ExitCode, SignalNumber
<1>2. ReportLines(p) = c
  BY DEF ReportLines
<1>0. x \in T /\ y \in T /\ z \in T
  BY <1>1
<1> HIDE DEF x, y, z, T
<1>3. a \in Seq(T) /\ Len(a) \in 0..1
  <2>1. <<x>> \in Seq(T) /\ Len(<<x>>) = 1 /\ <<>> \in Seq(T) /\ Len(<<>>) = 0
    BY <1>0, EmptySeq
  <2> QED BY <2>1
<1>4. /\ b \in Seq(T)
      /\ p.exit_status >= 0 => Len(b) = 1 /\ b[1] = y
      /\ p.exit_status < 0 /\ p.exit_signum >= 0 => Len(b) = 1 /\ b[1] = z
  BY <1>0, <1>1
<1> HIDE DEF a, b
<1>5. ASSUME Len(b) = 1
      PROVE  \E i \in DOMAIN c : c[i] = b[1]
  <2>1. c \in Seq(T) /\ Len(c) = Len(a) + Len(b)
        /\ \A i \in 1..(Len(a) + Len(b)) : c[i] = IF i <= Len(a) THEN a[i] ELSE b[i - Len(a)]
    BY <1>3, <1>4, ConcatProperties
  <2>2. DOMAIN c = 1..Len(c)
    BY <2>1, LenProperties
  <2>3. Len(a) + 1 \in DOMAIN c /\ c[Len(a) + 1] = b[1]
    BY <1>3, <1>5, <2>1, <2>2
  <2> QED BY <2>3
<1> HIDE DEF c
<1>6. p.exit_status >= 0 => \E i \in DOMAIN c : c[i] = y
  BY <1>4, <1>5
<1>7. p.exit_status < 0 /\ p.exit_signum >= 0 => \E i \in DOMAIN c : c[i] = z
  BY <1>4, <1>5
<1> QED BY <1>2, <1>6, <1>7 DEF y, z

(* Cron mode shows everything, and how the command ended, when it fails or *)
(* writes to standard error.                                               *)
THEOREM CronReveals == Spec => []RevealedOnFailure
<1>1. LossInv => RevealedOnFailure
  <2> SUFFICES ASSUME LossInv, cron_mode, phase = "exited", ~ioFailed, "EXCEPTION" \notin alarms,
                      process.terminated, process.exit_status # EXIT_SUCCESS \/ "STDERR" \in alarms
               PROVE  /\ \A n \in 1..Len(received) : Holds(stream, n)
                      /\ IF process.exit_status >= 0
                         THEN \E i \in DOMAIN notices : notices[i] = <<"exited", process.exit_status>>
                         ELSE \E i \in DOMAIN notices : notices[i] = <<"killed", process.exit_signum>>
    BY DEF RevealedOnFailure
  <2>1. ~buffered /\ notices = ReportLines(process)
    BY DEF LossInv, Story, CronReports
  <2>2. Shows(stream)
    BY <2>1 DEF LossInv, ShowsInv
  <2>3. process \in ProcessType /\ (process.exit_status >= 0 \/ process.exit_signum >= 0)
    BY DEF LossInv, OrderInv, TypeOK, Story, EndKnown
  <2>4. process.exit_status \in Int
    BY <2>3 DEF ProcessType, ExitCode
  <2>5. CASE process.exit_status >= 0
    BY <2>1, <2>2, <2>3, <2>5, LastLine DEF Shows
  <2>6. CASE ~(process.exit_status >= 0)
    <3>1. process.exit_status < 0 /\ process.exit_signum >= 0
      BY <2>3, <2>4, <2>6
    <3> QED BY <2>1, <2>2, <2>3, <2>6, <3>1, LastLine DEF Shows
  <2> QED BY <2>5, <2>6
<1> QED BY <1>1, Lossless, PTL
------------------------------------------------------------------------------
(* What a step adds *)

(* What was shown stays shown, and comes first. *)
Begins(a, b) == Len(a) <= Len(b) /\ \A i \in 1..Len(a) : b[i] = a[i]

LEMMA BeginsConcat ==
  ASSUME NEW S, NEW a \in Seq(S), NEW b \in Seq(S)
  PROVE  a \o b \in Seq(S) /\ Begins(a, a \o b)
<1>1. Len(a) \in Nat /\ Len(b) \in Nat
  BY LenProperties
<1>2. a \o b \in Seq(S) /\ Len(a \o b) = Len(a) + Len(b)
      /\ \A i \in 1..(Len(a) + Len(b)) : (a \o b)[i] = IF i <= Len(a) THEN a[i] ELSE b[i - Len(a)]
  BY ConcatProperties
<1> QED BY <1>1, <1>2 DEF Begins

LEMMA BeginsTwice ==
  ASSUME NEW S, NEW a \in Seq(S), NEW b \in Seq(S), NEW c \in Seq(S)
  PROVE  Begins(a, a \o b \o c)
<1> DEFINE d == a \o b
<1>1. d \in Seq(S) /\ Begins(a, d)
  BY BeginsConcat
<1> HIDE DEF d
<1>2. d \o c \in Seq(S) /\ Begins(d, d \o c)
  BY <1>1, BeginsConcat
<1>3. Len(a) \in Nat /\ Len(d) \in Nat /\ Len(d \o c) \in Nat
  BY <1>1, <1>2, LenProperties
<1>4. Begins(a, d \o c)
  BY <1>1, <1>2, <1>3 DEF Begins
<1> QED BY <1>4 DEF d

LEMMA BeginsSelf == ASSUME NEW S, NEW a \in Seq(S) PROVE Begins(a, a)
BY LenProperties DEF Begins

(* ... by the first output ... *)
LEMMA OutputAdds ==
  ASSUME Held, stream \in Seq(Shown), NEW type \in OutputType, NEW units \in Seq(Unit), NEW ok,
         FirstOutput(type, units, ok)
  PROVE  Begins(stream, stream')
<1>1. CASE CronSpools(type, units, ok)
  BY <1>1, BeginsSelf DEF CronSpools
<1>2. CASE CronSpoolFails(type, units, ok)
  <2>1. PICK ret \in WriteReturns(Len(units)) \ {Len(units)} :
        \E r \in Readback(spool \o SubSeq(units, 1, ret)) :
        \E w \in StreamResults(type, SubSeq(units, IF ret < 0 THEN 1 ELSE ret + 1, Len(units))) :
          stream' = stream \o r.out \o w.out
    BY <1>2 DEF CronSpoolFails
  <2> DEFINE first == IF ret < 0 THEN 1 ELSE ret + 1
  <2>2. ret \in -1..Len(units) /\ first \in 1..(Len(units) + 1) /\ Len(units) \in Nat
    BY <2>1, LenProperties DEF WriteReturns
  <2>3. SubSeq(units, 1, ret) \in Seq(Unit) /\ SubSeq(units, first, Len(units)) \in Seq(Unit)
    BY <2>2, TakenProperties, RestProperties
  <2>4. spool \o SubSeq(units, 1, ret) \in Seq(Unit)
    BY <2>3, BeginsConcat DEF Held
  <2>5. PICK r \in Readback(spool \o SubSeq(units, 1, ret)) :
        \E w \in StreamResults(type, SubSeq(units, first, Len(units))) :
          stream' = stream \o r.out \o w.out
    BY <2>1
  <2>6. PICK w \in StreamResults(type, SubSeq(units, first, Len(units))) :
          stream' = stream \o r.out \o w.out
    BY <2>5
  <2>7. r.out \in Seq(Shown) /\ w.out \in Seq(Shown)
    BY <2>3, <2>4, ReadbackType, StreamResultsType
  <2> QED BY <2>6, <2>7, BeginsTwice
<1>3. CASE CronShows(type, units, ok)
  <2>1. PICK r \in Unspooled, w \in StreamResults(type, units) : stream' = stream \o r.out \o w.out
    BY <1>3 DEF CronShows
  <2>2. r.out \in Seq(Shown) /\ w.out \in Seq(Shown)
    BY UnspooledType, StreamResultsType
  <2> QED BY <2>1, <2>2, BeginsTwice
<1>4. CASE StreamOnly(type, units, ok)
  <2>1. PICK w \in StreamResults(type, units) : stream' = stream \o w.out
    BY <1>4 DEF StreamOnly
  <2> QED BY <2>1, StreamResultsType, BeginsConcat
<1> QED BY <1>1, <1>2, <1>3, <1>4 DEF FirstOutput, CronOutput

(* ... and by a readback that an exception cuts short.                     *)
LEMMA ThrowAdds ==
  ASSUME Held, stream \in Seq(Shown), NEW units \in Seq(Unit),
         \/ UnspoolThrows(spool)
         \/ \E type : CronOutputThrows(type, units)
  PROVE  Begins(stream, stream')
<1>1. ASSUME NEW held \in Seq(Unit), UnspoolThrows(held)
      PROVE  Begins(stream, stream')
  <2>1. PICK r \in Readback(held) : stream' = stream \o r.out
    BY <1>1 DEF UnspoolThrows
  <2> QED BY <2>1, ReadbackType, BeginsConcat
<1>2. ASSUME NEW held, SpoolThrows(held)
      PROVE  Begins(stream, stream')
  BY <1>2, BeginsSelf DEF SpoolThrows
<1>3. ASSUME NEW ret \in WriteReturns(Len(units))
      PROVE  spool \o SubSeq(units, 1, ret) \in Seq(Unit)
  <2>1. ret \in -1..Len(units)
    BY DEF WriteReturns
  <2> QED BY <2>1, TakenProperties, BeginsConcat DEF Held
<1>4. spool \in Seq(Unit)
  BY DEF Held
<1> QED BY <1>1, <1>2, <1>3, <1>4 DEF CronOutputThrows

LEMMA ShownStays == OrderInv /\ [Next]_vars => Begins(stream, stream')
<1> SUFFICES ASSUME OrderInv, [Next]_vars PROVE Begins(stream, stream')
  OBVIOUS
<1>0. TypeOK /\ Held /\ stream \in Seq(Shown)
  BY DEF OrderInv, TypeOK, StreamTypeOK, Held, CronTypeOK
<1>a. ASSUME UNCHANGED stream \/ (\E r \in Unspooled : stream' = stream \o r.out)
      PROVE  Begins(stream, stream')
  BY <1>0, <1>a, UnspooledType, BeginsConcat, BeginsSelf
<1>1. ASSUME NEW type, DispatchError(type) PROVE Begins(stream, stream')
  BY <1>1, <1>a DEF DispatchError, CronError, Reveal, cronVars
<1>2. CASE OpenFails \/ SetupFails \/ CloseFails \/ ReadFails \/ MainLoopException
  BY <1>1, <1>2 DEF OpenFails, SetupFails, CloseFails, ReadFails, MainLoopException
<1>3. CASE Open \/ ForkFails \/ ForkSucceeds \/ StartLoop \/ LoopEnds \/ Exit
  BY <1>3, <1>a DEF Open, FirstOpen, CronOpen, StreamOpen, ForkFails, ForkSucceeds, StartLoop,
     LoopEnds, Exit, cronVars
<1>4. CASE Report
  BY <1>4, <1>a DEF Report, CronReport, cronVars
<1>5. ASSUME NEW type \in OutputType, NEW len \in 0..MaxLength, Output(type, len)
      PROVE  Begins(stream, stream')
  <2> DEFINE units == Message(type, len)
  <2>0. len \in Nat
    BY DispatchAssumption DEF DispatchAssumption
  <2>1. units \in Seq(Unit)
    BY <1>0, <2>0, ReceiveProperties
  <2> HIDE DEF units
  <2>2. PICK ok \in BOOLEAN : FirstOutput(type, units, ok)
    BY <1>5 DEF Output, DispatchOutput, units
  <2> QED BY <1>0, <2>1, <2>2, OutputAdds
<1>6. ASSUME NEW type \in OutputType, NEW len \in 0..MaxLength, OutputThrows(type, len)
      PROVE  Begins(stream, stream')
  <2> DEFINE units == Message(type, len)
  <2>0. len \in Nat
    BY DispatchAssumption DEF DispatchAssumption
  <2>1. units \in Seq(Unit)
    BY <1>0, <2>0, ReceiveProperties
  <2> HIDE DEF units
  <2>2. \/ UNCHANGED cronVars
        \/ CronOutputThrows(type, units)
        \/ \E ok \in BOOLEAN : FirstOutput(type, units, ok)
    BY <1>6 DEF OutputThrows, DispatchOutput, units
  <2>3. CASE UNCHANGED cronVars
    BY <1>a, <2>3 DEF cronVars
  <2>4. CASE CronOutputThrows(type, units)
    BY <1>0, <2>1, <2>4, ThrowAdds
  <2>5. CASE \E ok \in BOOLEAN : FirstOutput(type, units, ok)
    BY <1>0, <2>1, <2>5, OutputAdds
  <2> QED BY <2>2, <2>3, <2>4, <2>5
<1>b. ASSUME UnspoolThrows(spool) PROVE Begins(stream, stream')
  <2>1. spool \in Seq(Unit)
    BY <1>0 DEF Held
  <2> QED BY <1>0, <1>b, <2>1, ThrowAdds
<1>10. CASE LoopThrows \/ ReadFailsThrows
  BY <1>10, <1>a, <1>b DEF LoopThrows, ReadFailsThrows, CronErrorThrows, cronVars
<1>11. ASSUME NEW status, NEW signum, TerminatedThrows(status, signum)
       PROVE  Begins(stream, stream')
  BY <1>11, <1>a DEF TerminatedThrows, CronTerminated, cronVars
<1>12. ASSUME NEW signum, InterruptedThrows(signum)
       PROVE  Begins(stream, stream')
  BY <1>12, <1>a, <1>b DEF InterruptedThrows, CronInterrupted, CronInterruptedThrows, Reveal, cronVars
<1>7. ASSUME NEW status, NEW signum, CommandTerminated(status, signum)
      PROVE  Begins(stream, stream')
  BY <1>7, <1>a DEF CommandTerminated, CronTerminated, cronVars
<1>8. ASSUME NEW signum, DteeInterrupted(signum)
      PROVE  Begins(stream, stream')
  BY <1>8, <1>a DEF DteeInterrupted, CronInterrupted, Reveal, cronVars
<1>9. CASE UNCHANGED vars
  BY <1>9, <1>a DEF vars, cronVars
<1> QED
  BY <1>2, <1>3, <1>4, <1>5, <1>6, <1>7, <1>8, <1>9, <1>10, <1>11, <1>12 DEF Next, Done

(* What a file has of the command's output is never taken from it.         *)
LEMMA KeptStays ==
  ASSUME OrderInv, FilesInv, [Next]_vars,
         NEW f \in Files, NEW n \in Nat \ {0}, Holds(content[f], n)
  PROVE  Holds(content'[f], n)
<1>0. TypeOK /\ content[f] \in Seq(Unit) /\ FilesTypeOK
  BY DEF OrderInv, TypeOK, FilesTypeOK
<1>1. CASE Open
  <2>1. received = <<>> /\ Sound(f)
    BY <1>1 DEF Open, OrderInv, Buffering, FilesInv
  <2>2. Len(received) = 0 /\ DOMAIN content[f] = 1..Len(content[f])
    BY <1>0, <2>1, LenProperties, EmptySeq
  <2>3. \A i \in 1..Len(content[f]) : content[f][i].seq \in 0..0
    BY <2>1, <2>2 DEF Sound, Fits
  <2> QED BY <2>2, <2>3 DEF Holds
<1>2. ASSUME NEW type \in OutputType, NEW len \in 0..MaxLength,
             Output(type, len) \/ OutputThrows(type, len)
      PROVE  Holds(content'[f], n)
  <2>0. len \in Nat
    BY DispatchAssumption DEF DispatchAssumption
  <2> DEFINE units == Message(type, len)
  <2>1. units \in Seq(Unit)
    BY <1>0, <2>0, ReceiveProperties
  <2> HIDE DEF units
  <2>2. \/ \E ok \in BOOLEAN : FilesOutput(type, units, ok)
        \/ FilesOutputThrows(type, units)
        \/ UNCHANGED fileVars
    BY <1>2 DEF Output, OutputThrows, DispatchOutput, units
  <2>3. \/ content'[f] = content[f]
        \/ \E ret \in -1..Len(units) : content'[f] = content[f] \o SubSeq(units, 1, ret)
    BY <1>0, <2>1, <2>2, FileWrites, FileThrows DEF fileVars
  <2>4. ASSUME NEW ret \in -1..Len(units), content'[f] = content[f] \o SubSeq(units, 1, ret)
        PROVE  Holds(content'[f], n)
    <3>1. SubSeq(units, 1, ret) \in Seq(Unit)
      BY <2>1, TakenProperties
    <3>2. Holds(content[f] \o SubSeq(units, 1, ret), n)
      BY <1>0, <3>1, HoldsConcat
    <3> QED BY <2>4, <3>2
  <2> QED BY <2>3, <2>4
<1>3. CASE UNCHANGED content
  BY <1>3
<1>4. CASE OpenFails \/ SetupFails \/ CloseFails \/ ReadFails \/ ForkFails \/ ForkSucceeds
  BY <1>3, <1>4 DEF OpenFails, SetupFails, CloseFails, ReadFails, ForkFails, ForkSucceeds, fileVars
<1>5. CASE StartLoop \/ LoopEnds \/ Report \/ Exit \/ Done \/ UNCHANGED vars
  BY <1>3, <1>5 DEF StartLoop, LoopEnds, Report, Exit, Done, vars, fileVars
<1>6. CASE MainLoopException \/ LoopThrows \/ ReadFailsThrows
  BY <1>3, <1>6 DEF MainLoopException, LoopThrows, ReadFailsThrows, fileVars
<1>7. ASSUME NEW status, NEW signum, CommandTerminated(status, signum) \/ TerminatedThrows(status, signum)
      PROVE  Holds(content'[f], n)
  BY <1>3, <1>7 DEF CommandTerminated, TerminatedThrows, fileVars
<1>8. ASSUME NEW signum, DteeInterrupted(signum) \/ InterruptedThrows(signum)
      PROVE  Holds(content'[f], n)
  BY <1>3, <1>8 DEF DteeInterrupted, InterruptedThrows, fileVars
<1> QED BY <1>1, <1>2, <1>4, <1>5, <1>6, <1>7, <1>8 DEF Next

(* Trouble once met is not forgotten.                                      *)
LEMMA TroubleStays == TypeOK /\ Trouble /\ [Next]_vars => Trouble'
<1> SUFFICES ASSUME TypeOK, Trouble, [Next]_vars PROVE Trouble'
  OBVIOUS
<1>0. process \in ProcessType
  BY DEF TypeOK
<1>a. ASSUME NEW type \in ErrorType, type # "NONE", process' = Error(process, type) PROVE Trouble'
  BY <1>a, ErrorTold
<1>b. /\ "OPEN_OUTPUT" \in ErrorType /\ "OPEN_INPUT" \in ErrorType /\ "SIGNAL_HANDLER" \in ErrorType
      /\ "FORK" \in ErrorType /\ "CLOSE_OUTPUT" \in ErrorType /\ "READ_INPUT" \in ErrorType
      /\ "WRITE_OUTPUT" \in ErrorType /\ "MAIN_LOOP_EXCEPTION" \in ErrorType
  BY DEF ErrorType
<1>c. ASSUME process' = process PROVE Trouble'
  BY <1>c DEF Trouble
<1>1. CASE OpenFails \/ SetupFails \/ ForkFails \/ CloseFails \/ ReadFails
  BY <1>1, <1>a, <1>b DEF OpenFails, SetupFails, ForkFails, CloseFails, ReadFails, DispatchError
<1>2. CASE Open \/ ForkSucceeds \/ StartLoop \/ LoopEnds \/ Report \/ Exit \/ Done \/ UNCHANGED vars
  BY <1>2, <1>c DEF Open, ForkSucceeds, StartLoop, LoopEnds, Report, Exit, Done, vars
<1>3. ASSUME NEW type, NEW len, Output(type, len) \/ OutputThrows(type, len) PROVE Trouble'
  BY <1>3, <1>a, <1>b, <1>c DEF Output, OutputThrows, DispatchOutput
<1>4. CASE MainLoopException \/ LoopThrows \/ ReadFailsThrows
  BY <1>4, <1>a, <1>b, <1>c DEF MainLoopException, LoopThrows, ReadFailsThrows, DispatchError
<1>5. ASSUME NEW status, NEW signum, CommandTerminated(status, signum) \/ TerminatedThrows(status, signum)
      PROVE  Trouble'
  <2>1. process' = Terminated(process, status, signum) /\ ~process.terminated
    BY <1>5 DEF CommandTerminated, TerminatedThrows
  <2>2. process'.error = process.error /\ process'.interrupt_signum = process.interrupt_signum
    BY <1>0, <2>1 DEF ProcessType, Terminated
  <2> QED BY <2>1, <2>2 DEF Trouble
<1>6. ASSUME NEW signum \in InterruptSignals, DteeInterrupted(signum) \/ InterruptedThrows(signum)
      PROVE  Trouble'
  <2>1. signum \in SignalNumber /\ process' = Interrupted(process, signum)
    BY <1>6, SignalTypes DEF DteeInterrupted, InterruptedThrows
  <2>2. process'.interrupt_signum = signum /\ signum >= 0
    BY <1>0, <2>1 DEF ProcessType, Interrupted, SignalNumber
  <2> QED BY <2>2 DEF Trouble
<1> QED BY <1>1, <1>2, <1>3, <1>4, <1>5, <1>6 DEF Next

(* dtee exits without touching any output, and does nothing after it.      *)
LEMMA ExitIsLast ==
  ASSUME LossInv, [Next]_vars
  PROVE  /\ outcome' # outcome =>
              /\ outcome.status = -1
              /\ UNCHANGED <<stream, spool, buffered, content, received>>
              /\ "EXCEPTION" \in alarms' <=> "EXCEPTION" \in alarms
         /\ outcome.status # -1 => UNCHANGED vars
<1>1. outcome.status # -1 => phase = "exited"
  BY DEF LossInv, Story, FailuresKnown
<1>2. phase = "exited" => UNCHANGED vars
  BY DEF Next, Open, OpenFails, SetupFails, ForkFails, ForkSucceeds, CloseFails, StartLoop, Output,
     Throw, LoopThrows, OutputThrows, ReadFailsThrows, InterruptedThrows, TerminatedThrows,
     MainLoopException, CommandTerminated, DteeInterrupted, ReadFails, LoopEnds, Report, Exit, Done
<1>3. ASSUME outcome' # outcome
      PROVE  /\ UNCHANGED <<stream, spool, buffered, content, received>>
             /\ "EXCEPTION" \in alarms' <=> "EXCEPTION" \in alarms
  <2>1. ~UNCHANGED vars
    BY <1>3 DEF vars
  <2>2. \/ Exit \/ ForkFails
        \/ ~cron_mode /\ \/ OpenFails
                         \/ SetupFails
    BY <1>3, <2>1 DEF Next, Open, OpenFails, SetupFails, ForkSucceeds, CloseFails, StartLoop, GiveUp,
     Throw, LoopThrows, OutputThrows, ReadFailsThrows, InterruptedThrows, TerminatedThrows,
     Output, MainLoopException, CommandTerminated, DteeInterrupted, ReadFails, LoopEnds, Report, Done
  <2>3. UNCHANGED <<stream, spool, buffered, content, received>>
    BY <2>2 DEF Exit, ForkFails, OpenFails, SetupFails, DispatchError, cronVars, fileVars
  <2>4. alarms' \in {alarms, alarms \cup {"ERROR"}}
    BY <2>2 DEF Exit, ForkFails, OpenFails, SetupFails, DispatchError, Alarm
  <2>5. "EXCEPTION" \in alarms' <=> "EXCEPTION" \in alarms
    BY <2>4
  <2> QED BY <2>3, <2>5
<1> QED BY <1>1, <1>2, <1>3 DEF vars
------------------------------------------------------------------------------
(* What there is at any time *)

(* Nothing has been received before the outputs are open.                  *)
Early == phase = "openFailed" => received = <<>>

LEMMA EarlyNext == OrderInv /\ Early /\ [Next]_vars => Early'
<1> SUFFICES ASSUME OrderInv, Early, [Next]_vars PROVE Early'
  OBVIOUS
<1>1. CASE Open
  BY <1>1 DEF Open, OrderInv, Buffering, Early
<1>2. CASE UNCHANGED vars
  BY <1>2 DEF vars, Early
<1>3. phase' = "openFailed" => Open \/ UNCHANGED vars
  BY DEF Next, OpenFails, SetupFails, ForkFails, ForkSucceeds, CloseFails, StartLoop, Output,
     Throw, LoopThrows, OutputThrows, ReadFailsThrows, InterruptedThrows, TerminatedThrows,
     MainLoopException, CommandTerminated, DteeInterrupted, ReadFails, LoopEnds, Report, Exit, Done
<1> QED BY <1>1, <1>2, <1>3 DEF Early

(* Only the loop throws, and nothing is recorded once that is caught.      *)
Thrown ==
  "EXCEPTION" \in alarms =>
    /\ phase \in {"threw", "looped", "reported", "exited"}
    /\ phase # "threw" => process.error = "MAIN_LOOP_EXCEPTION"

LEMMA ThrownNext == TypeOK /\ Thrown /\ [Next]_vars => Thrown'
<1> SUFFICES ASSUME TypeOK, Thrown, [Next]_vars PROVE Thrown'
  OBVIOUS
<1>1. CASE MainLoopException
  <2>1. process' = Error(process, "MAIN_LOOP_EXCEPTION") /\ phase' = "looped"
    BY <1>1 DEF MainLoopException, DispatchError
  <2>2. process'.error = "MAIN_LOOP_EXCEPTION"
    BY <2>1 DEF TypeOK, ProcessType, Error
  <2> QED BY <2>1, <2>2 DEF Thrown
<1>2. CASE LoopEnds \/ Report \/ Exit \/ Done \/ UNCHANGED vars
  BY <1>2 DEF LoopEnds, Report, Exit, Done, vars, Thrown
<1>3. CASE OpenFails \/ SetupFails \/ ForkFails \/ CloseFails \/ ReadFails
  BY <1>3 DEF OpenFails, SetupFails, ForkFails, CloseFails, ReadFails, DispatchError, Alarm, Thrown
<1>4. CASE Open \/ ForkSucceeds \/ StartLoop
  BY <1>4 DEF Open, ForkSucceeds, StartLoop, Thrown
<1>5. ASSUME NEW type, NEW len, Output(type, len) PROVE Thrown'
  BY <1>5 DEF Output, Thrown
<1>6. ASSUME NEW status, NEW signum, CommandTerminated(status, signum) PROVE Thrown'
  BY <1>6 DEF CommandTerminated, Thrown
<1>7. ASSUME NEW signum, DteeInterrupted(signum) PROVE Thrown'
  BY <1>7 DEF DteeInterrupted, Thrown
<1>8. CASE Throw
  BY <1>8 DEF Throw, Thrown
<1> QED
  BY <1>1, <1>2, <1>3, <1>4, <1>5, <1>6, <1>7, <1>8
     DEF Next, LoopThrows, OutputThrows, ReadFailsThrows, InterruptedThrows, TerminatedThrows

(* While output is held back, all of it is held. *)
LEMMA HeldIsAll ==
  ASSUME OrderInv, buffered, phase # "threw", NEW n
  PROVE  Holds(spool, n) <=> n \in 1..Len(received)
<1>1. /\ spool \in Seq(Unit) /\ DOMAIN spool = 1..Len(spool) /\ Len(spool) = Len(received)
      /\ Len(spool) \in Nat /\ \A i \in 1..Len(spool) : spool[i].seq = i
  BY LenProperties DEF OrderInv, TypeOK, CronTypeOK, Buffering, StillHeld, Numbered
<1> QED BY <1>1 DEF Holds

(* What is held back has been received.                                    *)
LEMMA HeldIsReceived ==
  ASSUME OrderInv, buffered, NEW n, Holds(spool, n)
  PROVE  n \in 1..Len(received)
<1>1. /\ DOMAIN spool = 1..Len(spool) /\ Len(spool) <= Len(received)
      /\ Len(spool) \in Nat /\ Len(received) \in Nat
      /\ \A i \in 1..Len(spool) : spool[i].seq = i
  BY LenProperties DEF OrderInv, TypeOK, CronTypeOK, Buffering, StillHeld, Numbered
<1> QED BY <1>1 DEF Holds

(* An exception is not forgotten.                                          *)
LEMMA AlarmsStay == [Next]_vars => alarms \subseteq alarms'
BY DEF vars, Next, Open, OpenFails, SetupFails, ForkFails, ForkSucceeds, CloseFails, StartLoop,
   Output, DispatchOutput, DispatchError, Throw, LoopThrows, OutputThrows, ReadFailsThrows,
   InterruptedThrows, TerminatedThrows, MainLoopException, CommandTerminated, DteeInterrupted,
   ReadFails, LoopEnds, Report, Exit, Done

(* What a file keeps of the command's output is meant for it.              *)
LEMMA KeptIsMeant ==
  ASSUME OrderInv, FilesInv, NEW f \in Files, NEW n, n # 0, Holds(content[f], n)
  PROVE  n \in 1..Len(received) /\ Takes(f, received[n])
<1>1. content[f] \in Seq(Unit) /\ DOMAIN content[f] = 1..Len(content[f]) /\ Len(received) \in Nat
  BY LenProperties DEF OrderInv, TypeOK, FilesTypeOK
<1>2. PICK i \in 1..Len(content[f]) : content[f][i].seq = n
  BY <1>1 DEF Holds
<1>3. n \in 0..Len(received) /\ (n > 0 => received[n] \in Wanted(f))
  BY <1>2 DEF FilesInv, Sound, Fits
<1>4. n \in 1..Len(received) /\ n > 0
  BY <1>1, <1>3
<1> QED BY <1>3, <1>4 DEF Wanted

(* Without trouble nothing is missing anywhere. *)
LEMMA NoTroubleNoLoss ==
  ASSUME LossInv, Early, ~Trouble, phase # "threw", NEW n \in 1..Len(received)
  PROVE  /\ buffered \/ Holds(stream, n)
         /\ \A f \in Files : Takes(f, received[n]) => Holds(content[f], n)
<1>1. process.error = "NONE" /\ phase # "openFailed"
  BY EmptySeq DEF Trouble, Early
<1>2. ~ioFailed /\ hurt = {} /\ "EXCEPTION" \notin alarms
  BY <1>1 DEF LossInv, Story, FailuresKnown, Alarmed
<1>3. buffered \/ Holds(stream, n)
  BY <1>2 DEF LossInv, ShowsInv, Shows
<1>4. ASSUME NEW f \in Files
      PROVE  Takes(f, received[n]) => Holds(content[f], n)
  BY <1>2, <1>4 DEF LossInv, FilesInv, Whole
<1> QED BY <1>3, <1>4

(* A file that failed, and without cron mode an output that did, is known  *)
(* for it: that does not depend on how the command ended.                  *)
FailuresTold ==
  hurt # {} \/ (ioFailed /\ ~cron_mode) =>
    process.error # "NONE" \/ phase \in {"openFailed", "threw"}

LEMMA ToldInit == Init => FailuresTold
BY DEF Init, FilesInit, FailuresTold

LEMMA ToldNext == OrderInv /\ FailuresTold /\ [Next]_vars => FailuresTold'
<1> SUFFICES ASSUME OrderInv, FailuresTold, [Next]_vars PROVE FailuresTold'
  OBVIOUS
<1>0. TypeOK /\ FilesTypeOK /\ process \in ProcessType
  BY DEF OrderInv, TypeOK
<1>1. ASSUME NEW type \in ErrorType, type # "NONE", process' = Error(process, type)
      PROVE  FailuresTold'
  BY <1>0, <1>1, ErrorTold DEF Told, FailuresTold
<1>2. CASE Open
  <2>1. PICK ok1 \in BOOLEAN, ok2 \in BOOLEAN :
          FirstOpen(ok1) /\ FilesOpen(ok2) /\ phase' = IF ok1 /\ ok2 THEN "setup" ELSE "openFailed"
    BY <1>2 DEF Open
  <2>2. phase = "open" /\ process' = process /\ cron_mode' = cron_mode
    BY <1>2 DEF Open
  <2>3. ok1 /\ ~cron_mode => (ioFailed' <=> ioFailed)
    BY <2>1 DEF FirstOpen, StreamOpen
  <2>4. ok2 => hurt' = hurt
    BY <2>1 DEF FilesOpen
  <2> QED BY <2>1, <2>2, <2>3, <2>4 DEF FailuresTold
<1>3. CASE OpenFails \/ SetupFails \/ ForkFails \/ CloseFails \/ ReadFails
  BY <1>1, <1>3 DEF OpenFails, SetupFails, ForkFails, CloseFails, ReadFails, DispatchError, ErrorType
<1>4. CASE ForkSucceeds \/ StartLoop \/ LoopEnds \/ Exit \/ Done \/ UNCHANGED vars
  BY <1>4 DEF ForkSucceeds, StartLoop, LoopEnds, Exit, Done, vars, cronVars, fileVars, FailuresTold
<1>5. ASSUME NEW type \in OutputType, NEW len \in 0..MaxLength, Output(type, len)
      PROVE  FailuresTold'
  <2>1. phase = "loop" /\ phase' = "loop" /\ cron_mode' = cron_mode
    BY <1>5 DEF Output
  <2>2. PICK ok1 \in BOOLEAN, ok2 \in BOOLEAN :
          /\ FirstOutput(type, Message(type, len), ok1)
          /\ FilesOutput(type, Message(type, len), ok2)
          /\ IF ok1 /\ ok2
             THEN UNCHANGED <<process, result>>
             ELSE process' = Error(process, "WRITE_OUTPUT")
    BY <1>5 DEF Output, DispatchOutput
  <2>3. len \in Nat /\ Message(type, len) \in Seq(Unit)
    BY <1>0, DispatchAssumption, MessageType DEF TypeOK
  <2>4. hurt' # hurt => ~ok2
    BY <1>0, <2>2, <2>3, FileWrites
  <2>5. ok1 /\ ~cron_mode => (ioFailed' <=> ioFailed)
    BY <2>2 DEF FirstOutput, StreamOnly
  <2>6. CASE ok1 /\ ok2
    BY <2>1, <2>2, <2>4, <2>5, <2>6 DEF FailuresTold
  <2>7. CASE ~(ok1 /\ ok2)
    BY <1>1, <2>2, <2>7 DEF ErrorType
  <2> QED BY <2>6, <2>7
<1>6. CASE MainLoopException
  BY <1>1, <1>6 DEF MainLoopException, DispatchError, ErrorType
<1>10. CASE Throw
  BY <1>10 DEF Throw, FailuresTold
<1>7. ASSUME NEW status, NEW signum, CommandTerminated(status, signum)
      PROVE  FailuresTold'
  <2>1. process'.error = process.error
    BY <1>0, <1>7 DEF CommandTerminated, Terminated, ProcessType
  <2> QED BY <1>7, <2>1 DEF CommandTerminated, CronTerminated, cronVars, fileVars, FailuresTold
<1>8. ASSUME NEW signum, DteeInterrupted(signum)
      PROVE  FailuresTold'
  <2>1. process'.error = process.error
    BY <1>0, <1>8 DEF DteeInterrupted, Interrupted, ProcessType
  <2> QED BY <1>8, <2>1 DEF DteeInterrupted, cronVars, fileVars, FailuresTold
<1>9. CASE Report
  BY <1>9 DEF Report, cronVars, fileVars, FailuresTold
<1> QED
  BY <1>2, <1>3, <1>4, <1>5, <1>6, <1>7, <1>8, <1>9, <1>10
     DEF Next, LoopThrows, OutputThrows, ReadFailsThrows, InterruptedThrows, TerminatedThrows
==============================================================================
