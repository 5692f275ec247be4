-------------------------- MODULE ReceiveBufferProofs --------------------------
(***************************************************************************)
(* Proofs of the properties of ReceiveBuffer, for every size and limit the *)
(* kernel may have and for every platform.                                 *)
(***************************************************************************)
EXTENDS ReceiveBuffer, TLAPS

TypeOK ==
  /\ limit["rcv"] \in 0..INT_MAX /\ limit["snd"] \in 0..INT_MAX
  /\ rcvbuf \in Nat /\ sndbuf \in Nat /\ buffer \in Nat /\ so_rcvbuf \in Nat
  /\ step \in {"open_input", "open_outputs", "prepare_buffer", "ready", "failed"}
  /\ platform \in [doubled : BOOLEAN, have_size : BOOLEAN]

(* What dtee has been told is half of the kernel's size, or all of it, and *)
(* that is what the send buffers then get if the kernel permits.           *)
IInv ==
  /\ TypeOK
  /\ step = "open_input" => rcvbuf <= INT_MAX
  /\ step \in {"open_outputs", "prepare_buffer"} =>
       /\ (IF platform.doubled THEN 2 * so_rcvbuf ELSE so_rcvbuf) <= INT_MAX
       /\ platform.have_size => so_rcvbuf >= Smaller(MINIMUM_RCVBUF_SIZE, limit["rcv"])
  /\ step = "prepare_buffer" /\ platform.have_size =>
       /\ sndbuf <= Larger(IF platform.doubled THEN 2 * so_rcvbuf ELSE so_rcvbuf, MINIMUM_RCVBUF_SIZE)
       /\ sndbuf >= Smaller(MINIMUM_RCVBUF_SIZE, Smaller(limit["rcv"], limit["snd"]))
  /\ WholeDatagrams /\ BufferInRange /\ MinimumAccepted

LEMMA InitIInv == Init => IInv
<1> SUFFICES ASSUME Init
             PROVE  IInv
  OBVIOUS
<1>1. limit["rcv"] \in Sizes /\ limit["snd"] \in Sizes
  BY DEF Init
<1>2. \A size \in Sizes : size \in 0..INT_MAX
  BY ReceiveBufferAssumption DEF ReceiveBufferAssumption
<1>3. step = "open_input"
  BY DEF Init
<1>4. rcvbuf \in 0..INT_MAX /\ sndbuf \in 0..INT_MAX /\ so_rcvbuf = 0 /\ buffer = 0
  BY <1>2 DEF Init
<1>5. TypeOK
  <2>1. limit["rcv"] \in 0..INT_MAX /\ limit["snd"] \in 0..INT_MAX
    BY <1>1, <1>2
  <2>2. rcvbuf \in Nat /\ sndbuf \in Nat /\ buffer \in Nat /\ so_rcvbuf \in Nat
    BY <1>4
  <2>3. QED
    BY <2>1, <2>2, <1>3 DEF TypeOK, Init
<1>6. QED
  BY <1>3, <1>4, <1>5 DEF IInv, WholeDatagrams, BufferInRange, MinimumAccepted

LEMMA StepIInv == IInv /\ [Next]_vars => IInv'
<1> SUFFICES ASSUME IInv, [Next]_vars
             PROVE  IInv'
  OBVIOUS
<1> USE ReceiveBufferAssumption DEF ReceiveBufferAssumption, IInv, TypeOK, WholeDatagrams, BufferInRange, MinimumAccepted,
        Larger, Smaller
<1>1. CASE OpenInput
  BY <1>1, SMT DEF OpenInput, Told, Granted, Refused
<1>2. CASE OpenOutputs
  BY <1>2, SMT DEF OpenOutputs, Granted, Refused
<1>3. CASE PrepareBuffer
  BY <1>3, SMT DEF PrepareBuffer
<1>4. CASE Done \/ UNCHANGED vars
  BY <1>4, SMT DEF Done, vars
<1>5. QED
  BY <1>1, <1>2, <1>3, <1>4 DEF Next

LEMMA Invariance == Spec => []IInv
  BY InitIInv, StepIInv, PTL DEF Spec

(* Whatever the kernel's defaults and limits, no datagram is cut off.      *)
THEOREM DatagramsWhole == Spec => []WholeDatagrams
<1>1. IInv => WholeDatagrams
  BY DEF IInv
<1>2. QED
  BY <1>1, Invariance, PTL

(* The computation of the buffer's size never overflows.                   *)
THEOREM BufferRange == Spec => []BufferInRange
<1>1. IInv => BufferInRange
  BY DEF IInv
<1>2. QED
  BY <1>1, Invariance, PTL

(* The command can send the documented minimum in one write if the kernel  *)
(* permits.                                                                *)
THEOREM MinimumFits == Spec => []MinimumAccepted
<1>1. IInv => MinimumAccepted
  BY DEF IInv
<1>2. QED
  BY <1>1, Invariance, PTL
==============================================================================
